---- MODULE Spec2Model ----
(***************************************************************************)
(* A model of the Box Office Mojo daily-listing pipeline of the            *)
(* repository: the cell parsers, the per-date fetcher, the date-range      *)
(* batch collectors, the first-week aggregators and the dataset merge.     *)
(*                                                                         *)
(* Texts are sequences of one-character strings.  Two characters that are  *)
(* not ASCII are written as tokens: "EM" is U+2014 (em dash) and "EN" is   *)
(* U+2013 (en dash).                                                       *)
(*                                                                         *)
(* A Python value that is None, a float or an int is a record              *)
(* [kind, num, den]: the number is num/den in lowest terms.                *)
(***************************************************************************)
EXTENDS Integers, Sequences, FiniteSets, TLC

VARIABLES
    \* ---- parser harness -------------------------------------------------
    ppc,        \* "input" | "returned" | "formatted"
    text,       \* the cell text handed to the parser
    amount,     \* the integer the text was written from, or -1
    callee,     \* which parser ran
    ret,        \* the value the parser returned
    formatted,  \* the returned value formatted back as money text
    \* ---- first-week aggregation -----------------------------------------
    apc,        \* "batch" | "aggregate_movie_features" | "scrape_movie_daily_data"
    strategy,   \* the date-selection strategy of the batch collection
    movie,      \* the row of df_main being aggregated
    batch_df,   \* the batch of daily records, in arrival order
    first_week, \* the handler's windowed records
    features,   \* the handler's output: no row, or one feature row
    \* ---- dataset merge --------------------------------------------------
    mpc,         \* "loaded" | "collect_all_years" | "update_main_dataset"
    main_df,     \* the persisted dataset, one row per movie
    features_df, \* the new feature rows
    merged_df,   \* the dataset as written back
    \* ---- one listing fetch ----------------------------------------------
    fpc,         \* "call" | "returned"
    collector,   \* the class whose scrape_daily_data is called
    response,    \* what requests.get meets for the date page
    daily_df,    \* what scrape_daily_data hands to its caller
    \* ---- one batch collection -------------------------------------------
    cpc,         \* "loop" | "combine" | "returned" | "interrupted"
    job,         \* the collector function and its arguments
    run,         \* "first" | "rerun": the script was started again
    yi,          \* collect_all_years: index of the year in progress
    pos,         \* dates of the current list already fetched
    all_data,    \* the tables collected for the current list
    all_batch_data, \* collect_all_years: the tables of the years done
    served,      \* history: the dates requested in this run, with the
                 \* response each request met
    prev_ok,     \* history: the dates an earlier run fetched with data
    year_files,  \* data/processed/bom_{year}_batch.csv, per year
    all_file,    \* data/processed/bom_all_years_batch.csv
    cresult,     \* what the collector returns
    \* ---- aggregate_daily_features ---------------------------------------
    dpc,         \* "data" | "aggregate_daily_features" |
                 \* "enrich_dataset_with_daily_data"
    daily_data,  \* the daily records scrape_date_range collected
    target,      \* the movie: [title, movie_url, release_date]
    movie_data,  \* the matched records the features are reduced over
    daily_features, \* the outcome: None, the features dict, or an exception
    \* ---- standalone_youtube_collector.main ------------------------------
    ypc,         \* main thread: "loop_top" | "collect" | "shutdown" | "done"
    batch_num,   \* the batch in progress
    futures,     \* per row of the batch: [state, result, consumed]
    quota_exceeded, \* main's flag
    results,     \* rows of the batch whose stats main has collected
    df_stats,    \* rows of df with youtube_views set
    output_csv,  \* rows with stats in the saved OUTPUT_CSV
    late_requests, \* history: requests issued while quota_exceeded was set
    \* ---- requests to Box Office Mojo and the sleeps between them --------
    rpc,         \* "fetch" | "sleep" | "search" | "get" | "row_sleep" | "done"
    rjob,        \* [fn, strategy, movies, nan_titles]
    rdone,       \* dates or movies already handled
    rlog,        \* history: the requests sent and the sleeps taken, in order
    \* ---- the API key shared by the YouTube worker threads ---------------
    kpc,         \* "idle" | "pool": the executor is running workers |
                 \* "keys_exhausted" | "IndexError" | "done"
    kbatch,      \* the batch in progress, from 0
    kstats,      \* rows that have their statistics
    kjob,        \* "enrich_with_youtube" | "complete_stats"
    current_key_index, \* the index every worker reads and writes
    service_key, \* YouTubeCollector.youtube: the key its service was built with
    exhausted,   \* the keys whose daily quota the API has used up
    todo,        \* rows of the batch not yet taken by a worker
    wpc,         \* per worker: its position in the code
    wkey,        \* per worker: the key of its request
    wlocal,      \* per worker: the index it loaded (to increment, to build)
    wdepth,      \* per worker: depth of the recursive retry
    requested,   \* history: the keys requests were sent with
    quota_403,   \* history: the keys a request came back quota-exceeded for
    \* ---- aggregate_movie_features and its arguments ------------------------
    upc,         \* "idle" | "loaded" | "aggregate_movie_features"
    df_main,     \* the dataset passed to aggregate_movie_features
    batch_arg,   \* the batch of daily records passed to it
    agg_result,  \* the rows of the DataFrame it returns
    \* ---- the derived ratios of aggregate_daily_features --------------------
    gpc,         \* "idle" | "series" | "aggregate_daily_features"
    series,      \* movie_data sorted by date: the matched daily records
    derived,     \* the features the derived ratios are computed from, and the ratios
    \* ---- TMDBCollector.get_popular_movies ----------------------------------
    tpc,         \* "idle" | "while" | "request" | "except" | "return" | "done"
    total_movies, \* the target number of movies
    responses,   \* what TMDB answers for each page
    failed_once, \* the pages whose request has raised at least once
    tmdb_page,   \* page: the page the next request asks for
    movies,      \* the list of collected movies
    \* ---- resuming scrape_individual_movies.py ------------------------------
    spc,         \* "idle" | "main" | "loop" | "exit" | "ZeroDivisionError" | "done"
    run_no,      \* 1 for the first run of the script, 2 for the resumed one
    csv_main,    \* data/raw/movies_with_youtube.csv
    ready_titles, \* the titles with a bom_url, a budget and youtube_views
    start_idx,   \* sys.argv[1]
    max_movies,  \* sys.argv[2], passed as max_movies
    movies_to_scrape, \* the rows the run iterates over
    idx,         \* the number of rows of movies_to_scrape already scraped
    scrape_results, \* results: the rows of the movies scraped with data
    runs         \* history: what each finished run selected and did

parseVars == <<ppc, text, amount, callee, ret, formatted>>
aggVars == <<apc, strategy, movie, batch_df, first_week, features>>
mergeVars == <<mpc, main_df, features_df, merged_df>>
fetchVars == <<fpc, collector, response, daily_df>>
collectVars == <<cpc, job, run, yi, pos, all_data, all_batch_data, served,
                 prev_ok, year_files, all_file, cresult>>

dailyVars == <<dpc, daily_data, target, movie_data, daily_features>>

quotaVars == <<ypc, batch_num, futures, quota_exceeded, results, df_stats,
               output_csv, late_requests>>

politeVars == <<rpc, rjob, rdone, rlog>>

keyVars == <<kpc, kbatch, kstats, kjob, current_key_index, service_key, exhausted, todo,
             wpc, wkey, wlocal, wdepth, requested, quota_403>>

pureVars == <<upc, df_main, batch_arg, agg_result>>

ratioVars == <<gpc, series, derived>>

tmdbVars == <<tpc, total_movies, responses, failed_once, tmdb_page,
             movies>>

resumeVars == <<spc, run_no, csv_main, ready_titles, start_idx, max_movies, movies_to_scrape, idx, scrape_results, runs>>

vars == <<parseVars, aggVars, mergeVars, fetchVars, collectVars, dailyVars,
          quotaVars, politeVars, keyVars,
          pureVars,
          ratioVars,
          tmdbVars,
          resumeVars>>

-----------------------------------------------------------------------------
(* Bounds of the model.                                                    *)

MaxTextLen == 3      \* longest enumerated free cell text
MaxDigits == 7       \* most digits of an enumerated money amount

-----------------------------------------------------------------------------
(* Characters and Python's str methods.                                    *)

DigitChars == <<"0", "1", "2", "3", "4", "5", "6", "7", "8", "9">>
Digits == {DigitChars[i] : i \in 1..10}
DigitVal == [c \in Digits |-> CHOOSE i \in 0..9 : DigitChars[i + 1] = c]

Whitespace == {" ", "\n", "\t"}

\* The characters of the enumerated free texts.
TextAlphabet == {"1", "0", "$", ",", "-", "EM", " ", "N", "/", "A", "."}

\* The digits of the enumerated amounts.
AmountDigits == {"0", "1", "9"}

UpperChars ==
    <<"A", "B", "C", "D", "E", "F", "G", "H", "I", "J", "K", "L", "M",
      "N", "O", "P", "Q", "R", "S", "T", "U", "V", "W", "X", "Y", "Z">>
LowerChars ==
    <<"a", "b", "c", "d", "e", "f", "g", "h", "i", "j", "k", "l", "m",
      "n", "o", "p", "q", "r", "s", "t", "u", "v", "w", "x", "y", "z">>

\* str.lower() of one character.
LowerChar(c) ==
    IF \E i \in 1..Len(UpperChars) : UpperChars[i] = c
    THEN LowerChars[CHOOSE i \in 1..Len(UpperChars) : UpperChars[i] = c]
    ELSE c

Lower(s) == [i \in 1..Len(s) |-> LowerChar(s[i])]

\* str.upper() of one character.
UpperChar(c) ==
    IF \E i \in 1..Len(LowerChars) : LowerChars[i] = c
    THEN UpperChars[CHOOSE i \in 1..Len(LowerChars) : LowerChars[i] = c]
    ELSE c

Upper(s) == [i \in 1..Len(s) |-> UpperChar(s[i])]

RECURSIVE LStrip(_)
LStrip(s) ==
    IF s # <<>> /\ Head(s) \in Whitespace THEN LStrip(Tail(s)) ELSE s

RECURSIVE RStrip(_)
RStrip(s) ==
    IF s # <<>> /\ s[Len(s)] \in Whitespace
    THEN RStrip(SubSeq(s, 1, Len(s) - 1))
    ELSE s

\* str.strip()
Strip(s) == RStrip(LStrip(s))

\* str.replace(c, '') for a one-character c
Remove(s, c) == SelectSeq(s, LAMBDA x : x # c)

-----------------------------------------------------------------------------
(* Python values.                                                          *)

NoneVal == [kind |-> "None", num |-> 0, den |-> 1]
NaNVal == [kind |-> "nan", num |-> 0, den |-> 1]
ValueError == [kind |-> "ValueError", num |-> 0, den |-> 1]
InfVal(sign) == [kind |-> "inf", num |-> sign, den |-> 1]
IntVal(n) == [kind |-> "int", num |-> n, den |-> 1]

RECURSIVE Gcd(_, _)
Gcd(a, b) == IF b = 0 THEN a ELSE Gcd(b, a % b)

Abs(n) == IF n < 0 THEN -n ELSE n

\* The float num/den, in lowest terms.
FloatVal(n, d) ==
    LET g == Gcd(Abs(n), d)
    IN [kind |-> "float", num |-> n \div g, den |-> d \div g]

\* -0.0: the zero with the sign bit set, written 0/-1.  It is the one float
\* with a negative denominator; it prints with a minus sign.
NegZero == [kind |-> "float", num |-> 0, den |-> -1]

\* The float of a literal: sign and magnitude n/d.  The sign of a zero is
\* kept.
SignedFloat(sign, n, d) ==
    IF n = 0 /\ sign = -1 THEN NegZero ELSE FloatVal(sign * n, d)

IsNumber(v) == v.kind \in {"float", "int"}

RECURSIVE Pow10(_)
Pow10(k) == IF k = 0 THEN 1 ELSE 10 * Pow10(k - 1)

AllDigits(s) == \A i \in 1..Len(s) : s[i] \in Digits

RECURSIVE DigitsValue(_)
DigitsValue(s) ==
    IF s = <<>> THEN 0
    ELSE DigitsValue(SubSeq(s, 1, Len(s) - 1)) * 10 + DigitVal[s[Len(s)]]

\* The decimal literal body of float(): digits, digits.digits, digits. or
\* .digits (no exponent and no underscore: neither is in the alphabet).
DecimalValue(s, sign) ==
    LET dots == {i \in 1..Len(s) : s[i] = "."}
    IN IF dots = {}
       THEN IF s # <<>> /\ AllDigits(s)
            THEN SignedFloat(sign, DigitsValue(s), 1)
            ELSE ValueError
       ELSE LET p == CHOOSE i \in dots : \A j \in dots : i <= j
                ip == SubSeq(s, 1, p - 1)
                fp == SubSeq(s, p + 1, Len(s))
            IN IF AllDigits(ip) /\ AllDigits(fp) /\ Len(ip) + Len(fp) > 0
               THEN SignedFloat(sign,
                                DigitsValue(ip) * Pow10(Len(fp))
                                    + DigitsValue(fp),
                                Pow10(Len(fp)))
               ELSE ValueError

\* Python's float(str): surrounding whitespace is ignored, one sign is
\* allowed, "nan", "inf" and "infinity" are accepted in any case.
PyFloat(s) ==
    LET t == Strip(s)
        signed == t # <<>> /\ Head(t) \in {"+", "-"}
        sign == IF signed /\ Head(t) = "-" THEN -1 ELSE 1
        body == IF signed THEN Tail(t) ELSE t
        low == Lower(body)
    IN IF low = <<"n", "a", "n">> THEN NaNVal
       ELSE IF low \in {<<"i", "n", "f">>,
                        <<"i", "n", "f", "i", "n", "i", "t", "y">>}
            THEN InfVal(sign)
       ELSE DecimalValue(body, sign)

\* Python's int(str) of a text of digits (the only texts _clean_money
\* hands it): ValueError on the empty text.
PyIntOfDigits(s) == IF s = <<>> THEN ValueError ELSE IntVal(DigitsValue(s))

\* try: ... except: return None
ExceptNone(v) == IF v.kind = "ValueError" THEN NoneVal ELSE v

-----------------------------------------------------------------------------
(* The money parsers.                                                      *)

\* A slip: "not reported" read as a reported zero.
FloatUnlessDash_ZeroForDash(t) ==
    IF t # <<>> /\ t # <<"-">> THEN PyFloat(t) ELSE FloatVal(0, 1)

\* float(text) if text and text != '-' else None
FloatUnlessDash(t) ==
    IF t # <<>> /\ t # <<"-">> THEN PyFloat(t) ELSE NoneVal

\* A slip: replace(',', '', 1) drops the first separator only.
RECURSIVE RemoveFirst(_, _)
RemoveFirst(s, c) ==
    IF s = <<>> THEN <<>>
    ELSE IF Head(s) = c THEN Tail(s)
    ELSE <<Head(s)>> \o RemoveFirst(Tail(s), c)

StripMoney_FirstCommaOnly(t) == RemoveFirst(Remove(Strip(t), "$"), ",")

\* text.strip().replace('$', '').replace(',', '')
StripMoney(t) == Remove(Remove(Strip(t), "$"), ",")

\* YearBatchCollector._parse_money
YearBatch_parse_money(t) == ExceptNone(FloatUnlessDash(StripMoney(t)))

\* BOMDailyCollector._parse_money
BOMDaily_parse_money(t) ==
    LET s == StripMoney(t)
    IN IF s = <<>> \/ s = <<"-">> THEN NoneVal ELSE ExceptNone(PyFloat(s))

\* Python's int(str): surrounding whitespace is ignored, one sign is
\* allowed, the rest is digits (no underscore: it is not in the alphabet).
PyInt(s) ==
    LET t == Strip(s)
        signed == t # <<>> /\ Head(t) \in {"+", "-"}
        sign == IF signed /\ Head(t) = "-" THEN -1 ELSE 1
        body == IF signed THEN Tail(t) ELSE t
    IN IF body # <<>> /\ AllDigits(body)
       THEN IntVal(sign * DigitsValue(body))
       ELSE ValueError

\* YearBatchCollector._parse_int, BOMDailyCollector._parse_int
parse_int(t) ==
    LET s == Remove(Strip(t), ",")
    IN IF s # <<>> /\ s # <<"-">> THEN ExceptNone(PyInt(s)) ELSE NoneVal

MoneyChars == Digits \cup {","}

\* re.search(r"([\d,]+)", s): the first maximal run of digits and commas,
\* or <<>> when there is none (a run is never empty).
FirstMoneyRun(s) ==
    LET starts == {i \in 1..Len(s) : s[i] \in MoneyChars}
    IN IF starts = {} THEN <<>>
       ELSE LET a == CHOOSE i \in starts : \A j \in starts : i <= j
                ends == {j \in a..Len(s) :
                            \A k \in a..j : s[k] \in MoneyChars}
                b == CHOOSE j \in ends : \A k \in ends : k <= j
            IN SubSeq(s, a, b)

\* boxoffice_mojo._clean_money
clean_money(s) ==
    IF s = <<>> THEN NoneVal
    ELSE LET t == Strip(s)
         IN IF t \in {<<>>, <<"EN">>, <<"N", "/", "A">>, <<"EM">>}
            THEN NoneVal
            ELSE LET m == FirstMoneyRun(t)
                 IN IF m = <<>> THEN NoneVal
                    ELSE ExceptNone(PyIntOfDigits(Remove(m, ",")))

-----------------------------------------------------------------------------
(* Money formatting: f"${x:,.0f}".                                         *)

RECURSIVE NatDigits(_)
NatDigits(n) ==
    IF n < 10 THEN <<DigitChars[n + 1]>>
    ELSE Append(NatDigits(n \div 10), DigitChars[(n % 10) + 1])

\* The ',' option: a comma before every group of three digits.
RECURSIVE GroupThousands(_)
GroupThousands(ds) ==
    IF Len(ds) <= 3 THEN ds
    ELSE GroupThousands(SubSeq(ds, 1, Len(ds) - 3))
             \o <<",">> \o SubSeq(ds, Len(ds) - 2, Len(ds))

\* The '.0f' precision: num/den rounded to an integer, ties to even.
RoundHalfEven(n, d) ==
    LET q == n \div d
        r == n % d
    IN IF 2 * r > d THEN q + 1
       ELSE IF 2 * r < d THEN q
       ELSE IF q % 2 = 0 THEN q ELSE q + 1

\* f"${v:,.0f}" of a float or an int: nan and inf print as words, a
\* negative number and -0.0 with a minus sign.
FormatMoney(v) ==
    LET minus == IF v.num < 0 \/ v.den < 0 THEN <<"-">> ELSE <<>>
    IN CASE v.kind = "nan" -> <<"$", "n", "a", "n">>
         [] v.kind = "inf" -> <<"$">> \o minus \o <<"i", "n", "f">>
         [] OTHER ->
              <<"$">> \o minus
                  \o GroupThousands(
                         NatDigits(RoundHalfEven(Abs(v.num), Abs(v.den))))

-----------------------------------------------------------------------------
(* Calendar dates.  A date text 'YYYY-MM-DD' is the tuple <<y, m, d>>: the  *)
(* texts are zero padded, so comparing two texts as strings is comparing  *)
(* the tuples lexicographically.  A datetime is its proleptic Gregorian     *)
(* ordinal (day 1 is 0001-01-01), as datetime.toordinal() counts.         *)

IsLeap(y) == (y % 4 = 0) /\ ((y % 100 # 0) \/ (y % 400 = 0))

DaysInMonth(y, m) ==
    IF m = 2 THEN (IF IsLeap(y) THEN 29 ELSE 28)
    ELSE IF m \in {4, 6, 9, 11} THEN 30 ELSE 31

DaysBeforeYear(y) ==
    (y - 1) * 365 + ((y - 1) \div 4) - ((y - 1) \div 100) + ((y - 1) \div 400)

RECURSIVE DaysBeforeMonth(_, _)
DaysBeforeMonth(y, m) ==
    IF m = 1 THEN 0 ELSE DaysBeforeMonth(y, m - 1) + DaysInMonth(y, m - 1)

\* datetime(y, m, d), pd.to_datetime('YYYY-MM-DD')
ToOrdinal(date) ==
    DaysBeforeYear(date[1]) + DaysBeforeMonth(date[1], date[2]) + date[3]

\* datetime.strftime('%Y-%m-%d')
FromOrdinal(n) ==
    LET y == CHOOSE yy \in (n \div 366)..((n \div 365) + 1) :
                 DaysBeforeYear(yy) < n /\ n <= DaysBeforeYear(yy + 1)
        r == n - DaysBeforeYear(y)
        m == CHOOSE mm \in 1..12 :
                 /\ DaysBeforeMonth(y, mm) < r
                 /\ r <= DaysBeforeMonth(y, mm) + DaysInMonth(y, mm)
    IN <<y, m, r - DaysBeforeMonth(y, m)>>

\* datetime.weekday(): Monday is 0
Weekday(n) == (n + 6) % 7

\* a <= b for two date texts compared as strings
DateTextLeq(a, b) ==
    \/ a[1] < b[1]
    \/ a[1] = b[1] /\ a[2] < b[2]
    \/ a[1] = b[1] /\ a[2] = b[2] /\ a[3] <= b[3]

-----------------------------------------------------------------------------
(* The date-selection strategies of collect_year_batch.                    *)

Strategies == {"smart", "weekly", "biweekly"}

\* current = datetime(year, 1, 1); while current <= end: ...; current += step
EveryNthDay(year, step) ==
    LET first == ToOrdinal(<<year, 1, 1>>)
        last == ToOrdinal(<<year, 12, 31>>)
    IN [i \in 1..(((last - first) \div step) + 1) |->
           FromOrdinal(first + step * (i - 1))]

\* YearBatchCollector._generate_weekly_dates
generate_weekly_dates(year) == EveryNthDay(year, 7)

\* YearBatchCollector._generate_biweekly_dates
generate_biweekly_dates(year) == EveryNthDay(year, 14)

\* The fixed calendar dates _generate_smart_dates adds to the Fridays.
Holidays(year) ==
    <<<<year, 1, 1>>, <<year, 2, 14>>, <<year, 3, 29>>, <<year, 5, 24>>,
      <<year, 7, 4>>, <<year, 11, 28>>, <<year, 12, 25>>>>

\* sorted(dates) for a list without duplicates
RECURSIVE SortedDates(_)
SortedDates(S) ==
    IF S = {} THEN <<>>
    ELSE LET least == CHOOSE a \in S : \A b \in S : DateTextLeq(a, b)
         IN <<least>> \o SortedDates(S \ {least})

\* YearBatchCollector._generate_smart_dates
generate_smart_dates(year) ==
    LET jan1 == ToOrdinal(<<year, 1, 1>>)
        last == ToOrdinal(<<year, 12, 31>>)
        start == CHOOSE n \in jan1..(jan1 + 6) : Weekday(n) = 4
        fridays == {FromOrdinal(start + 7 * k) :
                       k \in 0..((last - start) \div 7)}
        extra == {Holidays(year)[i] : i \in 1..Len(Holidays(year))}
    IN SortedDates(fridays \cup extra)

\* The dates collect_year_batch scrapes under a strategy.
StrategyDates(strat, year) ==
    IF strat = "smart" THEN generate_smart_dates(year)
    ELSE IF strat = "weekly" THEN generate_weekly_dates(year)
    ELSE generate_biweekly_dates(year)

-----------------------------------------------------------------------------
(* The first-week aggregators.                                             *)
(* A daily record is [date, release, movie_url, theaters, daily_gross]; a   *)
(* movie is                                                                *)
(* [title, release_date, bom_url]; a feature row is the record Features    *)
(* builds.  (The means and the percentage columns of the source row are    *)
(* left out: no property below reads them.)                                *)

TitlePrefixLen == 20
WeekFirstDay == 0
WeekLastDay == 6

\* pat.upper() in x.upper(): str.contains(pat, case=False, regex=False)
Contains(hay, needle) ==
    LET h == Upper(hay)
        n == Upper(needle)
    IN \E i \in 1..(Len(h) - Len(n) + 1) : SubSeq(h, i, i + Len(n) - 1) = n

\* title[:20]
TitlePrefix(title) ==
    SubSeq(title, 1, IF Len(title) < TitlePrefixLen THEN Len(title)
                     ELSE TitlePrefixLen)

\* batch_df['release'].str.contains(title[:20], case=False, ...)
TitleMatches(rec, m) == Contains(rec.release, TitlePrefix(m.title))

\* (date - release_date).days
DaysSinceRelease(date, release_date) ==
    ToOrdinal(date) - ToOrdinal(release_date)

\* A slip: the window closed one day late.
InFirstWeek_EightDays(date, release_date) ==
    LET days == DaysSinceRelease(date, release_date)
    IN WeekFirstDay <= days /\ days <= WeekLastDay + 1

\* days_since_release.between(0, 6); 0 <= days_since <= 6
InFirstWeek(date, release_date) ==
    LET days == DaysSinceRelease(date, release_date)
    IN WeekFirstDay <= days /\ days <= WeekLastDay

\* The orders sort_values('date') may leave the records in: sorted by date
\* text, records of one date in any order (the default sort kind is
\* quicksort, which is not stable).
DateSorts(recs) ==
    LET n == Len(recs)
        perms == {f \in [1..n -> 1..n] : \A i, j \in 1..n : i # j => f[i] # f[j]}
        sorted == {f \in perms :
                     \A i \in 1..(n - 1) :
                        DateTextLeq(recs[f[i]].date, recs[f[i + 1]].date)}
    IN {[i \in 1..n |-> recs[f[i]]] : f \in sorted}

NonNull(vs) == SelectSeq(vs, LAMBDA v : v.kind # "None")

RECURSIVE SumNums(_)
SumNums(vs) == IF vs = <<>> THEN 0 ELSE Head(vs).num + SumNums(Tail(vs))

\* Series.sum(): nulls are skipped, the sum of nothing is 0.0
SeriesSum(vs) == FloatVal(SumNums(NonNull(vs)), 1)

\* Series.max(): nulls are skipped, the maximum of nothing is null
SeriesMax(vs) ==
    LET nn == NonNull(vs)
    IN IF nn = <<>> THEN NoneVal
       ELSE FloatVal(CHOOSE x \in {nn[i].num : i \in 1..Len(nn)} :
                        \A i \in 1..Len(nn) : nn[i].num <= x, 1)

\* Series.min()
SeriesMin(vs) ==
    LET nn == NonNull(vs)
    IN IF nn = <<>> THEN NoneVal
       ELSE FloatVal(CHOOSE x \in {nn[i].num : i \in 1..Len(nn)} :
                        \A i \in 1..Len(nn) : x <= nn[i].num, 1)

Column(recs, col) == [i \in 1..Len(recs) |-> recs[i][col]]

\* The features dict of aggregate_movie_features over the windowed records.
Features(m, week) ==
    [title |-> m.title,
     opening_theaters |->
         IF Len(week) > 0 THEN week[1].theaters ELSE NoneVal,
     opening_gross |->
         IF Len(week) > 0 THEN week[1].daily_gross ELSE NoneVal,
     first_week_gross |-> SeriesSum(Column(week, "daily_gross")),
     first_week_days_tracked |-> Len(week),
     peak_theaters_week1 |-> SeriesMax(Column(week, "theaters")),
     min_theaters_week1 |-> SeriesMin(Column(week, "theaters"))]

\* A slip: the empty-window check left out, so a row is built from nothing.
RowsOfWeek_NoEmptyCheck(m, week) == <<Features(m, week)>>

\* if len(first_week) == 0: continue ... results.append(features)
RowsOfWeek(m, week) ==
    IF Len(week) = 0 THEN <<>> ELSE <<Features(m, week)>>

\* The records of the batch that title-match the movie, in batch order.
MovieBatch(batch, m) == SelectSeq(batch, LAMBDA r : TitleMatches(r, m))

\* first_week of the loop body of aggregate_movie_features for one movie,
\* given the order the sort left the matched records in.
FirstWeekOf(m, sorted) ==
    SelectSeq(sorted, LAMBDA r : InFirstWeek(r.date, m.release_date))

\* if pd.isna(movie['bom_url']): continue
HasBomUrl(m) == m.bom_url # "NaN"

\* self.base_url + movie_url: the link of a release's listing row; every
\* release has its own page.
ReleaseUrl(release) == <<"https://www.boxofficemojo.com", "/release/", release>>

\* The movie's bom_url when it has one: the URL of its own release page.
MovieUrl(m) == IF HasBomUrl(m) THEN ReleaseUrl(m.title) ELSE <<>>

\* daily_data[daily_data['movie_url'] == movie_url]
UrlMatched(batch, url) == SelectSeq(batch, LAMBDA r : r.movie_url = url)

-----------------------------------------------------------------------------
(* scrape_movie_daily_data of the individual-movie scraper: the rows of    *)
(* the movie's own daily page.                                             *)

\* float(...) if gross_str and gross_str != '-' else 0
DailyPageGross(v) == IF v.kind = "None" THEN FloatVal(0, 1) ELSE v

\* One parsed row of the daily page: {'date', 'gross', 'theaters'}.
DailyPageEntry(rec) ==
    [date |-> rec.date, release |-> rec.release,
     theaters |-> rec.theaters, daily_gross |-> DailyPageGross(rec.daily_gross)]

\* max((d['theaters'] for d in first_week_data if d['theaters']), default=None)
MaxTruthy(vs) ==
    SeriesMax(SelectSeq(vs, LAMBDA v : v.kind # "None" /\ v.num # 0))

\* The dict scrape_movie_daily_data returns for a non-empty first week.
ScrapedFeatures(m, week) ==
    [title |-> m.title,
     opening_theaters |-> week[1].theaters,
     opening_gross |-> week[1].daily_gross,
     first_week_gross |-> FloatVal(SumNums(Column(week, "daily_gross")), 1),
     first_week_days_tracked |-> Len(week),
     peak_theaters_week1 |-> MaxTruthy(Column(week, "theaters")),
     min_theaters_week1 |-> NoneVal]

\* if not first_week_data: return None
ScrapedRows(m, week) ==
    IF Len(week) = 0 THEN <<>> ELSE <<ScrapedFeatures(m, week)>>

-----------------------------------------------------------------------------
(* The dataset merge: DataFrame.merge(on='title', how='left') followed by  *)
(* combine_first on every merged column.  A dataset row is                 *)
(* [tmdb_id, title, vals], a feature row is [title, vals]; vals maps the   *)
(* feature columns of the model to a value or None.                        *)

\* The feature columns carried by the model: one that both merges update and
\* one that only collect_all_years updates.
ModelCols == {"first_week_gross", "opening_per_theater"}

\* The columns collect_all_years merges (those of the model among its 12).
AllYearsCols == {"first_week_gross", "opening_per_theater"}

\* The columns update_main_dataset merges (those of the model among its 5).
UpdateMainCols == {"first_week_gross"}

\* A slip: plain overwrite, a null new value erases the old one.
Coalesce_Overwrite(new, old) == new

\* new.combine_first(old)
Coalesce(new, old) == IF new.kind # "None" THEN new ELSE old

NoVals == [c \in ModelCols |-> NoneVal]

\* The feature rows whose title equals the row's, in their order.
RightMatches(row, feats) == SelectSeq(feats, LAMBDA f : f.title = row.title)

\* The rows a left merge makes of one left row: one per matching right row,
\* or one with null right columns when nothing matches.
JoinRow(row, feats, cols) ==
    LET ms == RightMatches(row, feats)
        out(new) ==
            [tmdb_id |-> row.tmdb_id,
             title |-> row.title,
             vals |-> [c \in ModelCols |->
                          IF c \in cols
                          THEN Coalesce(new[c], row.vals[c])
                          ELSE row.vals[c]]]
    IN IF ms = <<>> THEN <<out(NoVals)>>
       ELSE [j \in 1..Len(ms) |-> out(ms[j].vals)]

\* movies_df.merge(features_df[['title', cols...]], on='title', how='left',
\* suffixes=('', '_new')) and the combine_first loop over cols.
RECURSIVE MergeCoalesce(_, _, _)
MergeCoalesce(main, feats, cols) ==
    IF main = <<>> THEN <<>>
    ELSE JoinRow(Head(main), feats, cols) \o MergeCoalesce(Tail(main), feats, cols)

-----------------------------------------------------------------------------
(* Titles of the model's movies and listings.                              *)

Title_It ==
    <<"I", "t">>

Title_ItChapterTwo ==
    <<"I", "t", " ", "C", "h", "a", "p", "t", "e", "r", " ", "T", "w", "o">>

Title_DeadReckoning ==
    <<"M", "i", "s", "s", "i", "o", "n", ":", " ", "I", "m", "p", "o", "s",
      "s", "i", "b", "l", "e", " ", "-", " ", "D", "e", "a", "d", " ", "R",
      "e", "c", "k", "o", "n", "i", "n", "g">>


-----------------------------------------------------------------------------
(* Each harness below drives one part of the pipeline; the variables of   *)
(* the other parts stay idle.                                              *)

\* The parser harness is not in use.
ParseIdle ==
    /\ ppc = "idle"
    /\ text = <<>>
    /\ amount = -1
    /\ callee = "none"
    /\ ret = NoneVal
    /\ formatted = <<>>

\* The aggregation harness is not in use.
AggIdle ==
    /\ apc = "idle"
    /\ strategy = "none"
    /\ movie = [title |-> <<>>, release_date |-> <<1, 1, 1>>, bom_url |-> "NaN"]
    /\ batch_df = <<>>
    /\ first_week = <<>>
    /\ features = <<>>

\* The merge harness is not in use.
MergeIdle ==
    /\ mpc = "idle"
    /\ main_df = <<>>
    /\ features_df = <<>>
    /\ merged_df = <<>>

\* The fetch harness is not in use.
FetchIdle ==
    /\ fpc = "idle"
    /\ collector = "none"
    /\ response = "none"
    /\ daily_df = "none"

\* The collection harness is not in use.
CollectIdle ==
    /\ cpc = "idle"
    /\ job = "none"
    /\ run = "none"
    /\ yi = 0
    /\ pos = 0
    /\ all_data = <<>>
    /\ all_batch_data = <<>>
    /\ served = <<>>
    /\ prev_ok = {}
    /\ year_files = <<>>
    /\ all_file = <<>>
    /\ cresult = "none"

\* The daily-features harness is not in use.
DailyIdle ==
    /\ dpc = "idle"
    /\ daily_data = <<>>
    /\ target = "none"
    /\ movie_data = <<>>
    /\ daily_features = "none"

\* The YouTube collector harness is not in use.
QuotaIdle ==
    /\ ypc = "idle"
    /\ batch_num = 0
    /\ futures = <<>>
    /\ quota_exceeded = FALSE
    /\ results = {}
    /\ df_stats = {}
    /\ output_csv = {}
    /\ late_requests = 0

\* The request-pacing harness is not in use.
PoliteIdle ==
    /\ rpc = "idle"
    /\ rjob = "none"
    /\ rdone = 0
    /\ rlog = <<>>

KeyIdle ==
    /\ kpc = "idle"
    /\ kbatch = 0
    /\ kstats = 0
    /\ kjob = "none"
    /\ current_key_index = 0
    /\ service_key = 0
    /\ exhausted = {}
    /\ todo = 0
    /\ wpc = <<>>
    /\ wkey = <<>>
    /\ wlocal = <<>>
    /\ wdepth = <<>>
    /\ requested = {}
    /\ quota_403 = {}

PureIdle ==
    /\ upc = "idle"
    /\ df_main = <<>>
    /\ batch_arg = <<>>
    /\ agg_result = <<>>

RatioIdle ==
    /\ gpc = "idle"
    /\ series = <<>>
    /\ derived = <<>>

TmdbIdle ==
    /\ tpc = "idle"
    /\ total_movies = 0
    /\ responses = <<>>
    /\ failed_once = {}
    /\ tmdb_page = 1
    /\ movies = <<>>

ResumeIdle ==
    /\ spc = "idle"
    /\ run_no = 0
    /\ csv_main = <<>>
    /\ ready_titles = {}
    /\ start_idx = 0
    /\ max_movies = 0
    /\ movies_to_scrape = <<>>
    /\ idx = 0
    /\ scrape_results = <<>>
    /\ runs = <<>>

-----------------------------------------------------------------------------
(* The parser harness: a cell text is drawn, one parser is applied to it,  *)
(* and a numeric result is formatted back.                                 *)

RECURSIVE SeqsUpTo(_, _)
SeqsUpTo(S, n) ==
    IF n = 0 THEN {<<>>}
    ELSE LET shorter == SeqsUpTo(S, n - 1)
         IN shorter \cup {Append(s, c) : s \in shorter, c \in S}

FreeTexts == SeqsUpTo(TextAlphabet, MaxTextLen)

\* Digit texts without a leading zero, and "0" itself.
AmountTexts ==
    {ds \in SeqsUpTo(AmountDigits, MaxDigits) :
        ds # <<>> /\ (Head(ds) = "0" => Len(ds) = 1)}

Parsers == {"YearBatchCollector._parse_money",
            "BOMDailyCollector._parse_money",
            "_clean_money"}

DailyParsers == {"YearBatchCollector._parse_money",
                 "BOMDailyCollector._parse_money"}

ParseInit ==
    /\ ppc = "input"
    /\ \/ /\ text \in FreeTexts
          /\ amount = -1
       \/ \E ds \in AmountTexts :
             /\ amount = DigitsValue(ds)
             /\ text = FormatMoney(FloatVal(DigitsValue(ds), 1))
    /\ callee = "none"
    /\ ret = NoneVal
    /\ formatted = <<>>

CallYearBatchParseMoney ==
    /\ ppc = "input"
    /\ ppc' = "returned"
    /\ callee' = "YearBatchCollector._parse_money"
    /\ ret' = YearBatch_parse_money(text)
    /\ UNCHANGED <<text, amount, formatted>>
    /\ UNCHANGED <<aggVars, mergeVars, fetchVars, collectVars, dailyVars, quotaVars,
                   politeVars,
                   keyVars,
                   pureVars,
                   ratioVars,
                   tmdbVars,
                   resumeVars>>

CallBOMDailyParseMoney ==
    /\ ppc = "input"
    /\ ppc' = "returned"
    /\ callee' = "BOMDailyCollector._parse_money"
    /\ ret' = BOMDaily_parse_money(text)
    /\ UNCHANGED <<text, amount, formatted>>
    /\ UNCHANGED <<aggVars, mergeVars, fetchVars, collectVars, dailyVars, quotaVars,
                   politeVars,
                   keyVars,
                   pureVars,
                   ratioVars,
                   tmdbVars,
                   resumeVars>>

CallCleanMoney ==
    /\ ppc = "input"
    /\ ppc' = "returned"
    /\ callee' = "_clean_money"
    /\ ret' = clean_money(text)
    /\ UNCHANGED <<text, amount, formatted>>
    /\ UNCHANGED <<aggVars, mergeVars, fetchVars, collectVars, dailyVars, quotaVars,
                   politeVars,
                   keyVars,
                   pureVars,
                   ratioVars,
                   tmdbVars,
                   resumeVars>>

FormatBack ==
    /\ ppc = "returned"
    /\ ret.kind # "None"
    /\ ppc' = "formatted"
    /\ formatted' = FormatMoney(ret)
    /\ UNCHANGED <<text, amount, callee, ret>>
    /\ UNCHANGED <<aggVars, mergeVars, fetchVars, collectVars, dailyVars, quotaVars,
                   politeVars,
                   keyVars,
                   pureVars,
                   ratioVars,
                   tmdbVars,
                   resumeVars>>

ParseNext ==
    \/ CallYearBatchParseMoney
    \/ CallBOMDailyParseMoney
    \/ CallCleanMoney
    \/ FormatBack

SpecParseInit == ParseInit /\ AggIdle /\ MergeIdle /\ FetchIdle /\ CollectIdle /\ DailyIdle /\ QuotaIdle
    /\ PoliteIdle
    /\ KeyIdle
    /\ PureIdle
    /\ RatioIdle
    /\ TmdbIdle
    /\ ResumeIdle

SpecParse == SpecParseInit /\ [][ParseNext]_vars

\* The cell texts that mean "not reported".
NotReportedTexts == {<<>>, <<"-">>, <<"EM">>, <<"N", "/", "A">>}

\* C1: a cell text that is "", "-", an em dash or "N/A" once its surrounding
\* whitespace is stripped is parsed to None by each of the three money
\* parsers, and never to 0.
C1_NotReportedIsNone ==
    (ppc # "input" /\ Strip(text) \in NotReportedTexts)
        => (ret = NoneVal /\ ~IsNumber(ret))

\* C1 witness: _parse_money has returned None for a "-" cell padded with
\* whitespace.
C1_Witness ==
    /\ ppc = "returned"
    /\ callee = "YearBatchCollector._parse_money"
    /\ text = <<" ", "-", " ">>
    /\ ret = NoneVal

\* C2: for a non-negative integer n written as "$" and digits with thousands
\* separators, each daily-listing money parser returns exactly n, and
\* formatting the returned value gives the text back.
C2_MoneyRoundTrip ==
    (amount >= 0 /\ ppc # "input" /\ callee \in DailyParsers)
        => /\ ret = FloatVal(amount, 1)
           /\ ppc = "formatted" => formatted = text

\* C2 witness: a seven-digit amount with two separators went through
\* BOMDailyCollector._parse_money and back.
C2_Witness ==
    /\ ppc = "formatted"
    /\ callee = "BOMDailyCollector._parse_money"
    /\ amount = 1091901
    /\ text = <<"$", "1", ",", "0", "9", "1", ",", "9", "0", "1">>
    /\ formatted = text

-----------------------------------------------------------------------------
(* The aggregation harness: a movie of df_main, a batch of daily records   *)
(* scraped on dates the strategy selects, and one run of an aggregator.    *)
(* The batch is taken in any arrival order: the aggregators are handed a   *)
(* table and sort it themselves.                                           *)

DefaultYear == 2024

MaxBatch == 2        \* most records of the batch
FocusDays == 8       \* listing dates are the selected dates among the
                     \* first FocusDays days of the year
ReleaseSpan == 9     \* release dates: ReleaseSpan days from 7 days before
                     \* the first day of the year

Jan1 == ToOrdinal(<<DefaultYear, 1, 1>>)

SelectedDates == [st \in Strategies |-> StrategyDates(st, DefaultYear)]

FocusDates ==
    [st \in Strategies |->
        {SelectedDates[st][i] : i \in
            {j \in 1..Len(SelectedDates[st]) :
                ToOrdinal(SelectedDates[st][j]) < Jan1 + FocusDays}}]

ReleaseDates == {FromOrdinal(n) : n \in (Jan1 - 7)..(Jan1 - 7 + ReleaseSpan - 1)}

MovieTitles == {Title_It, Title_DeadReckoning}
ListedTitles == {Title_It, Title_ItChapterTwo, Title_DeadReckoning}

Movies ==
    [title : MovieTitles, release_date : ReleaseDates, bom_url : {"NaN", "url"}]

\* The theaters and daily-gross cell texts of a listing row.
Cells_2000 == <<"2", ",", "0", "0", "0">>
Cells_2500 == <<"2", ",", "5", "0", "0">>
Cells_1000000 == <<"$", "1", ",", "0", "0", "0", ",", "0", "0", "0">>
Cells_800000 == <<"$", "8", "0", "0", ",", "0", "0", "0">>

\* The last pair is a row whose daily gross is not reported: '-'.
ListingCells ==
    {<<Cells_2000, Cells_1000000>>, <<Cells_2500, Cells_800000>>,
     <<Cells_2000, <<"-">>>>}

\* A pandas numeric column holds floats.
AsFloat(v) == IF v.kind = "int" THEN FloatVal(v.num, 1) ELSE v

\* One row of the table built by scrape_daily_data.
DailyRecord(date, release, theatersText, grossText) ==
    [date |-> date,
     release |-> release,
     movie_url |-> ReleaseUrl(release),
     theaters |-> AsFloat(parse_int(theatersText)),
     daily_gross |-> YearBatch_parse_money(grossText)]

AggInit ==
    /\ apc = "batch"
    /\ strategy \in Strategies
    /\ movie \in Movies
    /\ batch_df = <<>>
    /\ first_week = <<>>
    /\ features = <<>>

\* A listing row of a selected date arrives in the batch.  A listing page
\* has one row per release, and each selected date is scraped once.
AddDailyRecord ==
    /\ apc = "batch"
    /\ Len(batch_df) < MaxBatch
    /\ \E d \in FocusDates[strategy], t \in ListedTitles, c \in ListingCells :
          /\ \A i \in 1..Len(batch_df) :
                batch_df[i].date # d \/ batch_df[i].release # t
          /\ batch_df' = Append(batch_df, DailyRecord(d, t, c[1], c[2]))
    /\ UNCHANGED <<apc, strategy, movie, first_week, features>>
    /\ UNCHANGED <<parseVars, mergeVars, fetchVars, collectVars, dailyVars, quotaVars,
                   politeVars,
                   keyVars,
                   pureVars,
                   ratioVars,
                   tmdbVars,
                   resumeVars>>

\* aggregate_movie_features(batch_df, df_main) for the movie.
AggregateMovieFeatures ==
    /\ apc = "batch"
    /\ batch_df # <<>>
    /\ apc' = "aggregate_movie_features"
    /\ IF ~HasBomUrl(movie) \/ MovieBatch(batch_df, movie) = <<>>
       THEN /\ first_week' = <<>>
            /\ features' = <<>>
       ELSE \E sorted \in DateSorts(MovieBatch(batch_df, movie)) :
               /\ first_week' = FirstWeekOf(movie, sorted)
               /\ features' = RowsOfWeek(movie, FirstWeekOf(movie, sorted))
    /\ UNCHANGED <<strategy, movie, batch_df>>
    /\ UNCHANGED <<parseVars, mergeVars, fetchVars, collectVars, dailyVars, quotaVars,
                   politeVars,
                   keyVars,
                   pureVars,
                   ratioVars,
                   tmdbVars,
                   resumeVars>>

\* The rows of the batch read as the rows of the movie's daily page.
DailyPage(batch) == [i \in 1..Len(batch) |-> DailyPageEntry(batch[i])]

\* first_week_data of scrape_movie_daily_data: the page rows in the window,
\* in page order.
PageFirstWeek(m, page) ==
    SelectSeq(page, LAMBDA e : InFirstWeek(e.date, m.release_date))

\* IndividualMovieScraper.scrape_movie_daily_data(bom_url, release_date);
\* a missing bom_url raises inside the try and None is returned.
ScrapeMovieDailyData ==
    /\ apc = "batch"
    /\ apc' = "scrape_movie_daily_data"
    /\ IF ~HasBomUrl(movie) \/ batch_df = <<>>
       THEN /\ first_week' = <<>>
            /\ features' = <<>>
       ELSE /\ first_week' = PageFirstWeek(movie, DailyPage(batch_df))
            /\ features' =
                  ScrapedRows(movie, PageFirstWeek(movie, DailyPage(batch_df)))
    /\ UNCHANGED <<strategy, movie, batch_df>>
    /\ UNCHANGED <<parseVars, mergeVars, fetchVars, collectVars, dailyVars, quotaVars,
                   politeVars,
                   keyVars,
                   pureVars,
                   ratioVars,
                   tmdbVars,
                   resumeVars>>

AggNext ==
    \/ AddDailyRecord
    \/ AggregateMovieFeatures
    \/ ScrapeMovieDailyData

SpecAggInit == AggInit /\ ParseIdle /\ MergeIdle /\ FetchIdle /\ CollectIdle /\ DailyIdle /\ QuotaIdle
    /\ PoliteIdle
    /\ KeyIdle
    /\ PureIdle
    /\ RatioIdle
    /\ TmdbIdle
    /\ ResumeIdle

SpecAgg == SpecAggInit /\ [][AggNext]_vars

\* The records of a table, and how often a record occurs in it.
Records(table) == {table[i] : i \in 1..Len(table)}
CountIn(table, r) == Cardinality({i \in 1..Len(table) : table[i] = r})

\* The date lies in the seven calendar days that start on the release date.
WithinFirstWeek(date) ==
    /\ ToOrdinal(movie.release_date) <= ToOrdinal(date)
    /\ ToOrdinal(date) <= ToOrdinal(movie.release_date) + 6

\* The listing row names the movie itself.
ListsMovie(r) == r.release = movie.title

\* C3: the windowing step keeps exactly the matched records dated from the
\* release date to six days after it (a record of day 6 is kept, a record of
\* day 7 or of a day before the release is dropped), in aggregate_movie_features
\* and in scrape_movie_daily_data, whenever the step runs (the movie has a
\* bom_url).
C3_WindowIsSevenDays ==
    /\ (apc = "aggregate_movie_features" /\ HasBomUrl(movie)) =>
          /\ Records(first_week) \subseteq Records(batch_df)
          /\ \A r \in Records(batch_df) :
                CountIn(first_week, r) =
                    IF TitleMatches(r, movie) /\ WithinFirstWeek(r.date)
                    THEN CountIn(batch_df, r) ELSE 0
    /\ (apc = "scrape_movie_daily_data" /\ HasBomUrl(movie)) =>
          /\ Records(first_week) \subseteq Records(DailyPage(batch_df))
          /\ \A e \in Records(DailyPage(batch_df)) :
                CountIn(first_week, e) =
                    IF WithinFirstWeek(e.date)
                    THEN CountIn(DailyPage(batch_df), e) ELSE 0

\* C3 witness: a movie released on 2024-01-02 with matched records of
\* 2024-01-01 (the day before) and 2024-01-08 (day 6): only day 6 is kept.
C3_Witness ==
    /\ apc = "aggregate_movie_features"
    /\ HasBomUrl(movie)
    /\ movie.release_date = <<2024, 1, 2>>
    /\ Len(batch_df) = 2
    /\ \A i \in 1..2 : TitleMatches(batch_df[i], movie)
    /\ {batch_df[i].date : i \in 1..2} = {<<2024, 1, 1>>, <<2024, 1, 8>>}
    /\ Len(first_week) = 1
    /\ first_week[1].date = <<2024, 1, 8>>

\* C4: when no matched record of the movie lies in its first-week window,
\* aggregate_movie_features emits no row for it and scrape_movie_daily_data
\* returns None.
C4_EmptyWindowNoRow ==
    /\ (/\ apc = "aggregate_movie_features"
        /\ ~\E r \in Records(batch_df) :
               TitleMatches(r, movie) /\ WithinFirstWeek(r.date))
          => features = <<>>
    /\ (/\ apc = "scrape_movie_daily_data"
        /\ ~\E r \in Records(batch_df) : WithinFirstWeek(r.date))
          => features = <<>>

\* C4 witness: the only matched record is dated seven days after the
\* release, and no row came out.
C4_Witness ==
    /\ apc = "aggregate_movie_features"
    /\ HasBomUrl(movie)
    /\ movie.release_date = <<2024, 1, 1>>
    /\ \E r \in Records(batch_df) :
          TitleMatches(r, movie) /\ r.date = <<2024, 1, 8>>
    /\ ~\E r \in Records(batch_df) :
          TitleMatches(r, movie) /\ WithinFirstWeek(r.date)
    /\ features = <<>>

\* C6 as claimed: under a strategy with an interval of at most 7 days, a
\* movie listed on a sampled page dated within its first-week window gets a
\* feature row.
C6_Claimed_SampledMovieGetsRow ==
    (/\ apc = "aggregate_movie_features"
     /\ strategy \in {"weekly", "smart"}
     /\ \E r \in Records(batch_df) :
           ListsMovie(r) /\ WithinFirstWeek(r.date))
        => features # <<>>

\* The matched records of the movie inside its window, in batch order.
WindowedRecords ==
    SelectSeq(batch_df,
              LAMBDA r : TitleMatches(r, movie) /\ WithinFirstWeek(r.date))

\* C7 as claimed: the feature row of a movie whose matched records fall on
\* k distinct dates of its window has the opening theaters and gross of an
\* earliest-dated windowed record, the largest theater count, the sum of the
\* daily grosses, and first_week_days_tracked = k.
C7_Claimed_RowOverDistinctDates ==
    (apc = "aggregate_movie_features" /\ features # <<>>) =>
        LET w == WindowedRecords
            row == features[1]
            k == Cardinality({w[i].date : i \in 1..Len(w)})
        IN /\ \E i \in 1..Len(w) :
                 /\ \A j \in 1..Len(w) : DateTextLeq(w[i].date, w[j].date)
                 /\ row.opening_theaters = w[i].theaters
                 /\ row.opening_gross = w[i].daily_gross
           /\ \A i \in 1..Len(w) : w[i].theaters.num <= row.peak_theaters_week1.num
           /\ \E i \in 1..Len(w) : w[i].theaters = row.peak_theaters_week1
           /\ row.first_week_gross.num = SumNums(Column(w, "daily_gross"))
           /\ row.first_week_days_tracked = k

\* The releases named by the records.
ReleasesOf(recs) == {recs[i].release : i \in 1..Len(recs)}

\* C11 as claimed: when the movie's URL is known and records of the batch
\* carry exactly that URL, aggregate_movie_features reduces over the
\* windowed records with that URL and no others.
C11_Claimed_UrlMatchTakesPrecedence ==
    (/\ apc = "aggregate_movie_features"
     /\ HasBomUrl(movie)
     /\ UrlMatched(batch_df, MovieUrl(movie)) # <<>>)
    => Records(first_week) =
          {r \in Records(UrlMatched(batch_df, MovieUrl(movie))) :
              WithinFirstWeek(r.date)}

\* C12 as claimed: when the title match of a movie yields records of more
\* than one listed release, the movie is unmatched: no feature row is
\* computed.
C12_Claimed_AmbiguousIsUnmatched ==
    (/\ apc = "aggregate_movie_features"
     /\ Cardinality(ReleasesOf(MovieBatch(batch_df, movie))) > 1)
    => features = <<>>

-----------------------------------------------------------------------------
(* The merge harness: a persisted dataset, feature rows computed for some  *)
(* of its movies under their titles, and one merge.                        *)

MaxRows == 2         \* most rows of the persisted dataset

OldVals == [ModelCols -> {NoneVal, FloatVal(1, 1)}]
NewVals == [ModelCols -> {NoneVal, FloatVal(2, 1)}]

\* Per dataset row: its title, its stored values, and the values of the
\* feature row computed for it, if one was.
RowChoices ==
    [title : MovieTitles, vals : OldVals, has : {TRUE}, new : NewVals]
    \cup [title : MovieTitles, vals : OldVals, has : {FALSE}, new : {NoVals}]

MainOf(choices) ==
    [i \in 1..Len(choices) |->
        [tmdb_id |-> i, title |-> choices[i].title, vals |-> choices[i].vals]]

RECURSIVE FeatureRowsOf(_)
FeatureRowsOf(choices) ==
    IF choices = <<>> THEN <<>>
    ELSE (IF ~Head(choices).has THEN <<>>
          ELSE <<[title |-> Head(choices).title, vals |-> Head(choices).new]>>)
         \o FeatureRowsOf(Tail(choices))

MergeInit ==
    /\ mpc = "loaded"
    /\ \E choices \in SeqsUpTo(RowChoices, MaxRows) :
          /\ main_df = MainOf(choices)
          /\ features_df = FeatureRowsOf(choices)
    /\ merged_df = <<>>

\* The merge step of collect_all_years (reached with features only).
CollectAllYearsMerge ==
    /\ mpc = "loaded"
    /\ features_df # <<>>
    /\ mpc' = "collect_all_years"
    /\ merged_df' = MergeCoalesce(main_df, features_df, AllYearsCols)
    /\ UNCHANGED <<main_df, features_df>>
    /\ UNCHANGED <<parseVars, aggVars, fetchVars, collectVars, dailyVars, quotaVars,
                   politeVars,
                   keyVars,
                   pureVars,
                   ratioVars,
                   tmdbVars,
                   resumeVars>>

\* update_main_dataset(scraped_df) (called with scraped rows only).
UpdateMainDataset ==
    /\ mpc = "loaded"
    /\ features_df # <<>>
    /\ mpc' = "update_main_dataset"
    /\ merged_df' = MergeCoalesce(main_df, features_df, UpdateMainCols)
    /\ UNCHANGED <<main_df, features_df>>
    /\ UNCHANGED <<parseVars, aggVars, fetchVars, collectVars, dailyVars, quotaVars,
                   politeVars,
                   keyVars,
                   pureVars,
                   ratioVars,
                   tmdbVars,
                   resumeVars>>

MergeNext ==
    \/ CollectAllYearsMerge
    \/ UpdateMainDataset

SpecMergeInit == MergeInit /\ ParseIdle /\ AggIdle /\ FetchIdle /\ CollectIdle /\ DailyIdle /\ QuotaIdle
    /\ PoliteIdle
    /\ KeyIdle
    /\ PureIdle
    /\ RatioIdle
    /\ TmdbIdle
    /\ ResumeIdle

SpecMerge == SpecMergeInit /\ [][MergeNext]_vars

\* The columns the merge that ran updates.
MergedCols ==
    IF mpc = "collect_all_years" THEN AllYearsCols
    ELSE IF mpc = "update_main_dataset" THEN UpdateMainCols
    ELSE {}

\* C5: after a merge, for every movie row and every merged feature column:
\* a value that was there stays when the new value is null, a new non-null
\* value replaces a null, and of two non-null values the new one wins; a
\* movie without a feature row keeps its values.
C5_MergeCoalesces ==
    mpc \in {"collect_all_years", "update_main_dataset"} =>
        /\ \A i \in 1..Len(main_df) : \A j \in 1..Len(features_df) :
              main_df[i].title = features_df[j].title =>
                 \E k \in 1..Len(merged_df) :
                    /\ merged_df[k].tmdb_id = main_df[i].tmdb_id
                    /\ \A c \in MergedCols :
                          LET old == main_df[i].vals[c]
                              new == features_df[j].vals[c]
                              out == merged_df[k].vals[c]
                          IN /\ (old.kind # "None" /\ new.kind = "None") => out = old
                             /\ (old.kind = "None" /\ new.kind # "None") => out = new
                             /\ (old.kind # "None" /\ new.kind # "None") => out = new
                             /\ (old.kind = "None" /\ new.kind = "None") => out = NoneVal
        /\ \A i \in 1..Len(main_df) :
              (\A j \in 1..Len(features_df) :
                    main_df[i].title # features_df[j].title) =>
                 \A k \in 1..Len(merged_df) :
                    merged_df[k].tmdb_id = main_df[i].tmdb_id =>
                        merged_df[k].vals = main_df[i].vals

\* C5 witness: one movie whose stored first_week_gross met a null new value
\* and was kept, and whose stored opening_per_theater met a new value and
\* was replaced; another movie whose null first_week_gross took the new
\* value.
C5_Witness ==
    /\ mpc = "collect_all_years"
    /\ Len(main_df) = 2 /\ Len(features_df) = 2 /\ Len(merged_df) = 2
    /\ main_df[1].title # main_df[2].title
    /\ main_df[1].vals["first_week_gross"] = FloatVal(1, 1)
    /\ features_df[1].vals["first_week_gross"] = NoneVal
    /\ merged_df[1].vals["first_week_gross"] = FloatVal(1, 1)
    /\ main_df[1].vals["opening_per_theater"] = FloatVal(1, 1)
    /\ features_df[1].vals["opening_per_theater"] = FloatVal(2, 1)
    /\ merged_df[1].vals["opening_per_theater"] = FloatVal(2, 1)
    /\ main_df[2].vals["first_week_gross"] = NoneVal
    /\ features_df[2].vals["first_week_gross"] = FloatVal(2, 1)
    /\ merged_df[2].vals["first_week_gross"] = FloatVal(2, 1)

-----------------------------------------------------------------------------
(* scrape_daily_data: one request for a date page, the rows of its first   *)
(* table.  What requests.get meets is                                      *)
(*   [kind, status, page]   kind: "ConnectionError" | "Timeout" |          *)
(*                                "Response"                               *)
(* a page is [has_table, trs], and a table row is                          *)
(*   [ncols, release, link, gross]   link: "none" | "href" | "nohref".     *)
(* The function's outcome is [kind, exc, rows] with kind "None",           *)
(* "DataFrame" or "raise".                                                 *)

NoData == [kind |-> "None", exc |-> "", rows |-> <<>>]
Table(rows) == [kind |-> "DataFrame", exc |-> "", rows |-> rows]
Raise(exc) == [kind |-> "raise", exc |-> exc, rows |-> <<>>]

\* The exception classes the body can raise; all derive from Exception.
ExceptionClasses == {"ConnectionError", "Timeout", "HTTPError", "KeyError"}

\* The exceptions of the requests library.
RequestExceptions == {"ConnectionError", "Timeout", "HTTPError"}

\* A slip: only the exceptions of the requests library are caught.
Caught_RequestsOnly(clause, exc) == exc \in RequestExceptions

\* Does the except clause catch the exception?
Caught(clause, exc) ==
    IF clause = "except:" THEN TRUE
    ELSE exc \in ExceptionClasses        \* "except Exception"

ExceptClause ==
    [c \in {"YearBatchCollector", "BOMDailyCollector",
            "PreReleaseFirstWeekCollector"} |->
        IF c = "BOMDailyCollector" THEN "except Exception" ELSE "except:"]

\* response.raise_for_status() raises for the 4xx and 5xx statuses.
MinErrorStatus == 400
RaisesForStatus(status) == status >= MinErrorStatus

\* requests.get(...) and response.raise_for_status(): the exception raised,
\* or "" when the page is handed on.
FetchRaises(resp) ==
    IF resp.kind # "Response" THEN resp.kind
    ELSE IF RaisesForStatus(resp.status) THEN "HTTPError"
    ELSE ""

MinCols == 9         \* a row counts when it has this many cells
BaseUrl == "https://www.boxofficemojo.com"
Href == "/release/rl1/"
TheatersCell == Cells_2000
DaysCell == <<"3">>

\* Does the collector read the href of the title cell's link?
ReadsLink(c) == c # "PreReleaseFirstWeekCollector"

\* The record a collector builds from a row of at least MinCols cells.
ListingRecord(c, date, tr) ==
    IF ReadsLink(c)
    THEN [date |-> date,
          release |-> tr.release,
          movie_url |-> IF tr.link = "href" THEN <<BaseUrl, Href>> ELSE <<>>,
          daily_gross |->
              IF c = "BOMDailyCollector" THEN BOMDaily_parse_money(tr.gross)
              ELSE YearBatch_parse_money(tr.gross),
          theaters |-> AsFloat(parse_int(TheatersCell)),
          days_in_release |->
              IF tr.ncols > MinCols THEN AsFloat(parse_int(DaysCell))
              ELSE NoneVal]
    ELSE [release |-> tr.release,
          daily_gross |-> YearBatch_parse_money(tr.gross),
          theaters |-> AsFloat(parse_int(TheatersCell))]

\* The loop over table.find_all('tr')[1:]: the rows built, or the exception
\* of movie_link['href'] on a link without href.
RECURSIVE ParseRows(_, _, _)
ParseRows(c, date, trs) ==
    IF trs = <<>> THEN Table(<<>>)
    ELSE LET tr == Head(trs)
             rest == ParseRows(c, date, Tail(trs))
         IN IF tr.ncols < MinCols THEN rest
            ELSE IF ReadsLink(c) /\ tr.link = "nohref" THEN Raise("KeyError")
            ELSE IF rest.kind = "raise" THEN rest
            ELSE Table(<<ListingRecord(c, date, tr)>> \o rest.rows)

\* The body of the try block.
ScrapeBody(c, date, resp) ==
    IF FetchRaises(resp) # "" THEN Raise(FetchRaises(resp))
    ELSE IF ~resp.page.has_table THEN NoData
    ELSE LET parsed ==
                 ParseRows(c, date,
                           IF resp.page.trs = <<>> THEN <<>>
                           ELSE Tail(resp.page.trs))
         IN IF parsed.kind = "raise" THEN parsed
            ELSE IF parsed.rows = <<>> THEN NoData
            ELSE parsed

\* scrape_daily_data(date_str) of the collector: the body under its except
\* clause.
scrape_daily_data(c, date, resp) ==
    LET out == ScrapeBody(c, date, resp)
    IN IF out.kind = "raise" /\ Caught(ExceptClause[c], out.exc)
       THEN NoData
       ELSE out


-----------------------------------------------------------------------------
(* The fetch harness: one call of scrape_daily_data of one collector on    *)
(* one outcome of the request.                                             *)

MaxTrs == 3          \* most <tr> of a page's table, the header included

Collectors ==
    {"YearBatchCollector", "BOMDailyCollector", "PreReleaseFirstWeekCollector"}

Cell_Dash == <<"-">>
Cell_NA == <<"N", "/", "A">>

HeaderTr == [ncols |-> 0, release |-> <<>>, link |-> "none", gross |-> <<>>]

\* The rows of a listing: too short or long enough, the link present, absent
\* or without href, the gross cell a number, a dash or not a number.
DataTrs ==
    {tr \in [ncols : {8, 9, 10}, release : {Title_It},
             link : {"href", "none", "nohref"},
             gross : {Cells_1000000, Cell_Dash, Cell_NA}] :
        tr.link = "href" \/ tr.gross = Cells_1000000}
    \cup {[ncols |-> 10, release |-> Title_DeadReckoning, link |-> "href",
           gross |-> Cells_800000]}

Pages ==
    {[has_table |-> FALSE, trs |-> <<>>]}
    \cup [has_table : {TRUE}, trs : SeqsUpTo(DataTrs \cup {HeaderTr}, MaxTrs)]

NoPage == [has_table |-> FALSE, trs |-> <<>>]

Responses ==
    [kind : {"ConnectionError", "Timeout"}, status : {0}, page : {NoPage}]
    \cup [kind : {"Response"}, status : {404, 500}, page : {NoPage}]
    \cup [kind : {"Response"}, status : {200}, page : Pages]

FetchedDate == <<DefaultYear, 1, 1>>

FetchInit ==
    /\ fpc = "call"
    /\ collector \in Collectors
    /\ response \in Responses
    /\ daily_df = NoData

\* collector.scrape_daily_data(date_str)
ScrapeDailyData ==
    /\ fpc = "call"
    /\ fpc' = "returned"
    /\ daily_df' = scrape_daily_data(collector, FetchedDate, response)
    /\ UNCHANGED <<collector, response>>
    /\ UNCHANGED <<parseVars, aggVars, mergeVars, collectVars, dailyVars, quotaVars,
                   politeVars,
                   keyVars,
                   pureVars,
                   ratioVars,
                   tmdbVars,
                   resumeVars>>

FetchNext == ScrapeDailyData

SpecFetchInit == FetchInit /\ ParseIdle /\ AggIdle /\ MergeIdle /\ CollectIdle /\ DailyIdle /\ QuotaIdle
    /\ PoliteIdle
    /\ KeyIdle
    /\ PureIdle
    /\ RatioIdle
    /\ TmdbIdle
    /\ ResumeIdle

SpecFetch == SpecFetchInit /\ [][FetchNext]_vars

\* The rows after the first <tr> that have at least MinCols cells.
CountedTrs ==
    IF response.kind = "Response" /\ response.page.trs # <<>>
    THEN SelectSeq(Tail(response.page.trs), LAMBDA tr : tr.ncols >= MinCols)
    ELSE <<>>

\* The request failed: network error, timeout, or an error status.
FetchFailed ==
    \/ response.kind \in {"ConnectionError", "Timeout"}
    \/ response.kind = "Response" /\ response.status # 200

\* A counted row whose gross cell is not a number, or whose link lacks href.
HasMalformedCell ==
    \E i \in 1..Len(CountedTrs) :
        CountedTrs[i].gross = Cell_NA \/ CountedTrs[i].link = "nohref"

\* A counted row whose link lacks href, read by a collector that reads it.
LinkRaises ==
    /\ ReadsLink(collector)
    /\ \E i \in 1..Len(CountedTrs) : CountedTrs[i].link = "nohref"

\* C8 as claimed: scrape_daily_data never raises; it returns None on a
\* network error, a timeout, a non-200 response, a page without a table, a
\* table with no parseable row and a malformed cell, and a non-empty table
\* otherwise.
C8_Claimed_NoneOnEveryListedOutcome ==
    fpc = "returned" =>
        /\ daily_df.kind # "raise"
        /\ IF \/ FetchFailed
              \/ ~response.page.has_table
              \/ CountedTrs = <<>>
              \/ HasMalformedCell
           THEN daily_df = NoData
           ELSE daily_df.kind = "DataFrame" /\ daily_df.rows # <<>>

\* C8 (amended): scrape_daily_data never raises; it returns None on a
\* network error, a timeout, an error status, a page without a table, a
\* table with no row of at least nine cells after the header row, and a
\* title link without href
\* where the collector reads it; otherwise it returns a non-empty table with
\* one record per such row, a gross cell that is not a number giving a null
\* field of its record.
C8_NeverRaisesNoneOrTable ==
    fpc = "returned" =>
        /\ daily_df.kind # "raise"
        /\ IF \/ FetchFailed
              \/ ~response.page.has_table
              \/ CountedTrs = <<>>
              \/ LinkRaises
           THEN daily_df = NoData
           ELSE /\ daily_df.kind = "DataFrame"
                /\ Len(daily_df.rows) = Len(CountedTrs)
                /\ daily_df.rows # <<>>
                /\ \A i \in 1..Len(CountedTrs) :
                      /\ daily_df.rows[i].release = CountedTrs[i].release
                      /\ CountedTrs[i].gross \in {Cell_NA, Cell_Dash} =>
                            daily_df.rows[i].daily_gross = NoneVal
                      /\ CountedTrs[i].gross = Cells_1000000 =>
                            daily_df.rows[i].daily_gross = FloatVal(1000000, 1)

\* C8 witness: a page whose table has a row with a link without href was
\* read by a collector with "except Exception" and None came back.
C8_Witness ==
    /\ fpc = "returned"
    /\ collector = "BOMDailyCollector"
    /\ response.kind = "Response" /\ response.status = 200
    /\ LinkRaises
    /\ daily_df = NoData

-----------------------------------------------------------------------------
(* The batch collectors: YearBatchCollector.collect_year_batch,            *)
(* BOMDailyCollector.scrape_date_range and collect_all_years.  A job is    *)
(*   [fn, strategy, years, start, end, max_days]                           *)
(* with years the one year of collect_year_batch or the years of           *)
(* collect_all_years, and max_days = 0 for None.                           *)

\* A file that does not exist, and a file with rows.
NoFile == [exists |-> FALSE, rows |-> <<>>]
File(rows) == [exists |-> TRUE, rows |-> rows]

\* pd.concat(tables, ignore_index=True)
RECURSIVE Concat(_)
Concat(tables) ==
    IF tables = <<>> THEN <<>> ELSE Head(tables) \o Concat(Tail(tables))

\* A slip: a date without data discards what was collected before it.
Accumulate_RestartOnNoData(all, daily) ==
    IF daily.kind # "None" THEN Append(all, daily.rows) ELSE <<>>

\* if daily_df is not None: all_data.append(daily_df)
Accumulate(all, daily) ==
    IF daily.kind # "None" THEN Append(all, daily.rows) ELSE all

\* Every day from start to end, as scrape_date_range walks them.
RangeDates(start, end) ==
    [i \in 1..(ToOrdinal(end) - ToOrdinal(start) + 1) |->
        FromOrdinal(ToOrdinal(start) + i - 1)]

\* The years of the model and their selected dates.
ModelYears == {DefaultYear - 1, DefaultYear}
YearDates == [y \in ModelYears |-> [st \in Strategies |-> StrategyDates(st, y)]]

\* The date list the loop in progress walks.
JobDates(j, y) ==
    IF j.fn = "scrape_date_range" THEN RangeDates(j.start, j.end)
    ELSE YearDates[j.years[y]][j.strategy]

\* Does the loop take another date?  scrape_date_range also stops at
\* max_days.
LoopOpen(j, y, p) ==
    /\ p < Len(JobDates(j, y))
    /\ ~(j.fn = "scrape_date_range" /\ j.max_days # 0 /\ p >= j.max_days)

\* The collector class whose scrape_daily_data the job calls.
JobCollector(j) ==
    IF j.fn = "scrape_date_range" THEN "BOMDailyCollector"
    ELSE "YearBatchCollector"

\* What a finished loop returns: the concatenation, or None without data.
Combined(all) == IF all # <<>> THEN Table(Concat(all)) ELSE NoData

-----------------------------------------------------------------------------
(* The collection harness: one run of a batch collector against a site     *)
(* that answers each request in its own way, an interruption of the run,   *)
(* and the script started again.                                           *)

MaxLive == 2         \* the site has listings, or fails, for the first
                     \* MaxLive dates of a list; later dates have no table
RangeDays == 3       \* most days of a scrape_date_range range

Jan1Date == FromOrdinal(Jan1)

YearJobs ==
    [fn : {"collect_year_batch"}, strategy : Strategies,
     years : {<<DefaultYear>>},
     start : {Jan1Date}, end : {Jan1Date}, max_days : {0}]

AllYearsJobs ==
    [fn : {"collect_all_years"}, strategy : {"biweekly", "weekly"},
     years : {<<DefaultYear - 1, DefaultYear>>},
     start : {Jan1Date}, end : {Jan1Date}, max_days : {0}]

RangeJobs ==
    [fn : {"scrape_date_range"}, strategy : {"daily"},
     years : {<<DefaultYear>>},
     start : {Jan1Date},
     end : {FromOrdinal(n) : n \in (Jan1 - 1)..(Jan1 + RangeDays - 1)},
     max_days : {0, 1, 2}]

Jobs == YearJobs \cup AllYearsJobs \cup RangeJobs

TimeoutResponse == [kind |-> "Timeout", status |-> 0, page |-> NoPage]
NoTableResponse == [kind |-> "Response", status |-> 200, page |-> NoPage]
ListingResponse ==
    [kind |-> "Response", status |-> 200,
     page |-> [has_table |-> TRUE,
               trs |-> <<HeaderTr,
                         [ncols |-> 10, release |-> Title_It,
                          link |-> "href", gross |-> Cells_1000000]>>]]

\* What the site may answer to the n-th request of a list.
SiteResponses(n) ==
    IF n <= MaxLive THEN {TimeoutResponse, ListingResponse}
    ELSE {NoTableResponse}

CollectInit ==
    /\ cpc = "loop"
    /\ job \in Jobs
    /\ run = "first"
    /\ yi = 1
    /\ pos = 0
    /\ all_data = <<>>
    /\ all_batch_data = <<>>
    /\ served = <<>>
    /\ prev_ok = {}
    /\ year_files = [y \in ModelYears |-> NoFile]
    /\ all_file = NoFile
    /\ cresult = NoData

\* One pass of the loop: fetch the next date, keep its table if there is
\* one.
FetchNextDate ==
    /\ cpc = "loop"
    /\ LoopOpen(job, yi, pos)
    /\ LET d == JobDates(job, yi)[pos + 1]
       IN \E resp \in SiteResponses(pos + 1) :
             /\ all_data' =
                   Accumulate(all_data,
                              scrape_daily_data(JobCollector(job), d, resp))
             /\ served' = Append(served, [date |-> d, response |-> resp])
    /\ pos' = pos + 1
    /\ UNCHANGED <<cpc, job, run, yi, all_batch_data, prev_ok, year_files,
                   all_file, cresult>>
    /\ UNCHANGED <<parseVars, aggVars, mergeVars, fetchVars, dailyVars, quotaVars,
                   politeVars,
                   keyVars,
                   pureVars,
                   ratioVars,
                   tmdbVars,
                   resumeVars>>

\* The year file after collect_year_batch's loop: written when there is
\* data.
YearFilesAfter(files, year, all) ==
    IF all # <<>> THEN [files EXCEPT ![year] = File(Concat(all))] ELSE files

\* collect_year_batch after its loop: concat, save, return.
YearBatchReturn ==
    /\ cpc = "loop"
    /\ job.fn = "collect_year_batch"
    /\ ~LoopOpen(job, yi, pos)
    /\ cpc' = "returned"
    /\ cresult' = Combined(all_data)
    /\ year_files' = YearFilesAfter(year_files, job.years[yi], all_data)
    /\ UNCHANGED <<job, run, yi, pos, all_data, all_batch_data, served,
                   prev_ok, all_file>>
    /\ UNCHANGED <<parseVars, aggVars, mergeVars, fetchVars, dailyVars, quotaVars,
                   politeVars,
                   keyVars,
                   pureVars,
                   ratioVars,
                   tmdbVars,
                   resumeVars>>

\* collect_all_years: collect_year_batch returned for the year; keep its
\* table and go on to the next year, or leave the loop.
AllYearsNextYear ==
    /\ cpc = "loop"
    /\ job.fn = "collect_all_years"
    /\ ~LoopOpen(job, yi, pos)
    /\ year_files' = YearFilesAfter(year_files, job.years[yi], all_data)
    /\ all_batch_data' =
          IF Combined(all_data).kind # "None"
          THEN Append(all_batch_data, Combined(all_data).rows)
          ELSE all_batch_data
    /\ all_data' = <<>>
    /\ IF yi < Len(job.years)
       THEN /\ yi' = yi + 1
            /\ pos' = 0
            /\ cpc' = cpc
       ELSE /\ cpc' = "combine"
            /\ UNCHANGED <<yi, pos>>
    /\ UNCHANGED <<job, run, served, prev_ok, all_file, cresult>>
    /\ UNCHANGED <<parseVars, aggVars, mergeVars, fetchVars, dailyVars, quotaVars,
                   politeVars,
                   keyVars,
                   pureVars,
                   ratioVars,
                   tmdbVars,
                   resumeVars>>

\* collect_all_years after its loop: nothing collected, or concat and save.
AllYearsCombine ==
    /\ cpc = "combine"
    /\ cpc' = "returned"
    /\ IF all_batch_data = <<>>
       THEN /\ cresult' = NoData
            /\ all_file' = all_file
       ELSE /\ cresult' = Table(Concat(all_batch_data))
            /\ all_file' = File(Concat(all_batch_data))
    /\ UNCHANGED <<job, run, yi, pos, all_data, all_batch_data, served,
                   prev_ok, year_files>>
    /\ UNCHANGED <<parseVars, aggVars, mergeVars, fetchVars, dailyVars, quotaVars,
                   politeVars,
                   keyVars,
                   pureVars,
                   ratioVars,
                   tmdbVars,
                   resumeVars>>

\* scrape_date_range after its loop: concat and return; nothing is saved.
RangeReturn ==
    /\ cpc = "loop"
    /\ job.fn = "scrape_date_range"
    /\ ~LoopOpen(job, yi, pos)
    /\ cpc' = "returned"
    /\ cresult' = Combined(all_data)
    /\ UNCHANGED <<job, run, yi, pos, all_data, all_batch_data, served,
                   prev_ok, year_files, all_file>>
    /\ UNCHANGED <<parseVars, aggVars, mergeVars, fetchVars, dailyVars, quotaVars,
                   politeVars,
                   keyVars,
                   pureVars,
                   ratioVars,
                   tmdbVars,
                   resumeVars>>

\* The run is interrupted between two requests (Ctrl-C during the sleep, or
\* the process is killed).
Interrupt ==
    /\ cpc = "loop"
    /\ cpc' = "interrupted"
    /\ UNCHANGED <<job, run, yi, pos, all_data, all_batch_data, served,
                   prev_ok, year_files, all_file, cresult>>
    /\ UNCHANGED <<parseVars, aggVars, mergeVars, fetchVars, dailyVars, quotaVars,
                   politeVars,
                   keyVars,
                   pureVars,
                   ratioVars,
                   tmdbVars,
                   resumeVars>>

\* The dates of the run that were fetched with data.
OkDates ==
    {served[i].date : i \in
        {k \in 1..Len(served) :
            scrape_daily_data(JobCollector(job), served[k].date,
                              served[k].response).kind = "DataFrame"}}

\* The script is started again with the same arguments: memory is gone, the
\* files are as they were left.
Rerun ==
    /\ cpc = "interrupted"
    /\ run = "first"
    /\ cpc' = "loop"
    /\ run' = "rerun"
    /\ yi' = 1
    /\ pos' = 0
    /\ all_data' = <<>>
    /\ all_batch_data' = <<>>
    /\ served' = <<>>
    /\ prev_ok' = OkDates
    /\ UNCHANGED <<job, year_files, all_file, cresult>>
    /\ UNCHANGED <<parseVars, aggVars, mergeVars, fetchVars, dailyVars, quotaVars,
                   politeVars,
                   keyVars,
                   pureVars,
                   ratioVars,
                   tmdbVars,
                   resumeVars>>

CollectNext ==
    \/ FetchNextDate
    \/ YearBatchReturn
    \/ AllYearsNextYear
    \/ AllYearsCombine
    \/ RangeReturn
    \/ Interrupt
    \/ Rerun

SpecCollectInit ==
    CollectInit /\ ParseIdle /\ AggIdle /\ MergeIdle /\ FetchIdle /\ DailyIdle
    /\ QuotaIdle
    /\ PoliteIdle
    /\ KeyIdle
    /\ PureIdle
    /\ RatioIdle
    /\ TmdbIdle
    /\ ResumeIdle

SpecCollect == SpecCollectInit /\ [][CollectNext]_vars

\* The dates a job selects, in the order it fetches them.
Selected(j) ==
    LET dates == JobDates(j, 1)
    IN IF j.fn = "scrape_date_range" /\ j.max_days # 0
          /\ j.max_days < Len(dates)
       THEN SubSeq(dates, 1, j.max_days)
       ELSE dates

\* The fetch result of the i-th request of the run.
ServedResult(i) ==
    scrape_daily_data(JobCollector(job), served[i].date, served[i].response)

\* The rows of the non-null fetch results of the run, in request order.
RECURSIVE ServedRows(_)
ServedRows(n) ==
    IF n = 0 THEN <<>> ELSE ServedRows(n - 1) \o ServedResult(n).rows

\* C9: when collect_year_batch or scrape_date_range returns, every selected
\* date was requested, in order, whatever the earlier requests met, and the
\* result is the concatenation in that order of the fetch results that are
\* not None (None when there is none).
C9_ConcatOfNonNullResults ==
    (cpc = "returned" /\ job.fn \in {"collect_year_batch", "scrape_date_range"})
    => /\ Len(served) = Len(Selected(job))
       /\ \A i \in 1..Len(served) : served[i].date = Selected(job)[i]
       /\ cresult = IF ServedRows(Len(served)) = <<>> THEN NoData
                    ELSE Table(ServedRows(Len(served)))

\* C9 witness: the first date's request timed out, the second date's gave a
\* listing, the later dates gave none, and the batch is the second date's
\* listing.
C9_Witness ==
    /\ cpc = "returned"
    /\ job.fn = "collect_year_batch"
    /\ Len(served) > 2
    /\ served[1].response = TimeoutResponse
    /\ served[2].response = ListingResponse
    /\ served[Len(served)].response = NoTableResponse
    /\ cresult.kind = "DataFrame"
    /\ \A k \in 1..Len(cresult.rows) : cresult.rows[k].date = served[2].date

\* The records in the files.
PersistedRecords ==
    UNION {Records(year_files[y].rows) : y \in ModelYears}
    \cup Records(all_file.rows)

\* C10 as claimed: when the collection is interrupted, the records of the
\* dates fetched with data are in a file, and a run started again requests
\* none of the dates an earlier run fetched with data.
C10_Claimed_CheckpointsAndResumes ==
    /\ cpc = "interrupted" =>
          \A i \in 1..Len(served) :
              Records(ServedResult(i).rows) \subseteq PersistedRecords
    /\ run = "rerun" =>
          \A i \in 1..Len(served) : served[i].date \notin prev_ok

-----------------------------------------------------------------------------
(* aggregate_daily_features(daily_data, movie_title, movie_url): match by  *)
(* URL, fall back to the title, reduce over all matched records.  The URL  *)
(* argument is [kind, val]: None, NaN, or a string (val, possibly empty).  *)

UrlNone == [kind |-> "None", val |-> <<>>]
UrlNaN == [kind |-> "nan", val |-> <<>>]
UrlStr(chars) == [kind |-> "str", val |-> chars]

\* movie_url and pd.notna(movie_url): NaN is truthy but not notna, None and
\* '' are falsy.
UrlGiven(u) == u.kind = "str" /\ u.val # <<>>

\* daily_data['release'].str.contains(movie_title, case=False, ...)
TitleMatched(daily, title) ==
    SelectSeq(daily, LAMBDA r : Contains(r.release, title))

\* Lines 176-181: the matched records, or the exception of reading
\* movie_data before any assignment.
MatchMovieData(daily, title, u) ==
    IF u.kind = "None" THEN Table(TitleMatched(daily, title))
    ELSE IF ~UrlGiven(u) THEN Raise("UnboundLocalError")
    ELSE IF UrlMatched(daily, u.val) = <<>>
         THEN Table(TitleMatched(daily, title))
         ELSE Table(UrlMatched(daily, u.val))

\* Truth value of a feature: a null (NaN) and a nonzero number are true.
Truthy(v) == v.kind = "None" \/ v.num # 0

\* v > 0: false for a null.
Positive(v) == v.kind # "None" /\ v.num > 0

\* a / b for numbers
Quotient(a, b) == FloatVal(a.num * b.den, a.den * b.num)

\* daily_theater_expansion_ratio
ExpansionRatio(peak, opening) ==
    IF Truthy(peak) /\ Truthy(opening) /\ Positive(opening)
    THEN Quotient(peak, opening)
    ELSE NoneVal

\* The features dict over the matched records in sorted order.
DailyFeatures(md) ==
    [daily_opening_theaters |-> md[1].theaters,
     daily_peak_theaters |-> SeriesMax(Column(md, "theaters")),
     daily_min_theaters |-> SeriesMin(Column(md, "theaters")),
     daily_opening_day_gross |-> md[1].daily_gross,
     daily_peak_gross |-> SeriesMax(Column(md, "daily_gross")),
     daily_days_tracked |-> Len(md),
     daily_theater_expansion_ratio |->
         ExpansionRatio(SeriesMax(Column(md, "theaters")), md[1].theaters)]

\* The outcomes of the function.
Unmatched == [kind |-> "None", exc |-> "", feats |-> <<>>]
FeaturesDict(md) == [kind |-> "dict", exc |-> "", feats |-> <<DailyFeatures(md)>>]
Raised(exc) == [kind |-> "raise", exc |-> exc, feats |-> <<>>]


-----------------------------------------------------------------------------
(* The daily-features harness: daily records collected day by day around   *)
(* a movie's release, and one call of aggregate_daily_features, directly   *)
(* or from the loop of enrich_dataset_with_daily_data.                     *)

MaxDaily == 2        \* most records of daily_data

\* The listing dates: the release day, the last day of its week, and the
\* day after.
DailyDates ==
    {FromOrdinal(Jan1 + k) : k \in {WeekFirstDay, WeekLastDay, WeekLastDay + 1}}

\* A URL of another form than the listing links.
TitleUrl(title) == <<"https://www.boxofficemojo.com", "/title/", title>>

UrlArgs(title) ==
    {UrlNone, UrlNaN, UrlStr(<<>>), UrlStr(ReleaseUrl(title)),
     UrlStr(TitleUrl(title))}

Targets ==
    {[title |-> t, movie_url |-> u, release_date |-> Jan1Date] :
        t \in MovieTitles,
        u \in UNION {UrlArgs(tt) : tt \in MovieTitles}}

DailyInit ==
    /\ dpc = "data"
    /\ daily_data = <<>>
    /\ target \in {tg \in Targets : tg.movie_url \in UrlArgs(tg.title)}
    /\ movie_data = <<>>
    /\ daily_features = Unmatched

\* scrape_date_range appends the rows of the next listing: dates arrive in
\* order, a page has one row per release.
CollectDailyRecord ==
    /\ dpc = "data"
    /\ Len(daily_data) < MaxDaily
    /\ \E d \in DailyDates, t \in ListedTitles, c \in ListingCells :
          /\ \A i \in 1..Len(daily_data) :
                /\ DateTextLeq(daily_data[i].date, d)
                /\ daily_data[i].date # d \/ daily_data[i].release # t
          /\ daily_data' = Append(daily_data, DailyRecord(d, t, c[1], c[2]))
    /\ UNCHANGED <<dpc, target, movie_data, daily_features>>
    /\ UNCHANGED <<parseVars, aggVars, mergeVars, fetchVars, collectVars, quotaVars,
                   politeVars,
                   keyVars,
                   pureVars,
                   ratioVars,
                   tmdbVars,
                   resumeVars>>

\* The steps of aggregate_daily_features on the target.
AggregateOutcome ==
    LET m == MatchMovieData(daily_data, target.title, target.movie_url)
    IN IF m.kind = "raise"
       THEN /\ movie_data' = <<>>
            /\ daily_features' = Raised(m.exc)
       ELSE IF m.rows = <<>>
       THEN /\ movie_data' = <<>>
            /\ daily_features' = Unmatched
       ELSE \E sorted \in DateSorts(m.rows) :
               /\ movie_data' = sorted
               /\ daily_features' = FeaturesDict(sorted)

\* aggregate_daily_features(daily_data, movie_title, movie_url)
AggregateDailyFeatures ==
    /\ dpc = "data"
    /\ dpc' = "aggregate_daily_features"
    /\ AggregateOutcome
    /\ UNCHANGED <<daily_data, target>>
    /\ UNCHANGED <<parseVars, aggVars, mergeVars, fetchVars, collectVars, quotaVars,
                   politeVars,
                   keyVars,
                   pureVars,
                   ratioVars,
                   tmdbVars,
                   resumeVars>>

\* One pass of the loop of enrich_dataset_with_daily_data: the movies are
\* those with bom_url.notna() (read_csv reads an empty cell as NaN), the
\* data is not empty.
EnrichMovie ==
    /\ dpc = "data"
    /\ daily_data # <<>>
    /\ UrlGiven(target.movie_url)
    /\ dpc' = "enrich_dataset_with_daily_data"
    /\ AggregateOutcome
    /\ UNCHANGED <<daily_data, target>>
    /\ UNCHANGED <<parseVars, aggVars, mergeVars, fetchVars, collectVars, quotaVars,
                   politeVars,
                   keyVars,
                   pureVars,
                   ratioVars,
                   tmdbVars,
                   resumeVars>>

DailyNext ==
    \/ CollectDailyRecord
    \/ AggregateDailyFeatures
    \/ EnrichMovie

SpecDailyInit ==
    DailyInit /\ ParseIdle /\ AggIdle /\ MergeIdle /\ FetchIdle /\ CollectIdle
    /\ QuotaIdle
    /\ PoliteIdle
    /\ KeyIdle
    /\ PureIdle
    /\ RatioIdle
    /\ TmdbIdle
    /\ ResumeIdle

SpecDaily == SpecDailyInit /\ [][DailyNext]_vars

\* C13 as claimed: aggregate_daily_features returns a features dict or
\* None for every input, a missing URL argument (None, NaN, '') included;
\* it never raises.
C13_Claimed_NeverRaises ==
    dpc = "aggregate_daily_features" => daily_features.kind \in {"dict", "None"}

\* The date lies in the seven days that start on the target's release date.
InTargetWeek(date) == InFirstWeek(date, target.release_date)

\* C20 as claimed: the features enrich_dataset_with_daily_data gets from
\* aggregate_daily_features are reduced over matched records dated within
\* [release_date, release_date + 6 days] only.
C20_Claimed_ReducedOverFirstWeek ==
    (dpc = "enrich_dataset_with_daily_data" /\ daily_features.kind = "dict")
    => \A i \in 1..Len(movie_data) : InTargetWeek(movie_data[i].date)

-----------------------------------------------------------------------------
(* standalone_youtube_collector.main: batches of rows, each batch handed   *)
(* to a thread pool whose workers call process_row (one YouTube request    *)
(* per row), the main thread reading the results as they complete.         *)

NumRows == 4         \* rows of needs_stats
BatchSize == 3       \* rows per batch (BATCH_SIZE, scaled down)
Workers == 2         \* threads of the pool (WORKERS, scaled down)

\* total_batches = (len(needs_stats) + BATCH_SIZE - 1) // BATCH_SIZE
TotalBatches == (NumRows + BatchSize - 1) \div BatchSize

Min(a, b) == IF a < b THEN a ELSE b

\* needs_stats.iloc[start_idx:end_idx], as row numbers from 1
BatchRows(b) == (b * BatchSize + 1)..Min(b * BatchSize + BatchSize, NumRows)

Queued == [state |-> "queued", result |-> "none", consumed |-> FALSE]

\* What process_row returns for what the request meets: a 403 naming the
\* quota, a 200 with statistics, anything else.
ProcessRowResults == {"QUOTA_EXCEEDED", "stats", "None"}

QuotaInit ==
    /\ ypc = "loop_top"
    /\ batch_num = 0
    /\ futures = <<>>
    /\ quota_exceeded = FALSE
    /\ results = {}
    /\ df_stats = {}
    /\ output_csv = {}
    /\ late_requests = 0

\* Top of the batch loop: leave when the flag is set or the batches are
\* done, else submit process_row for every row of the batch.
SubmitBatch ==
    /\ ypc = "loop_top"
    /\ IF quota_exceeded \/ batch_num >= TotalBatches
       THEN /\ ypc' = "done"
            /\ UNCHANGED <<futures, results>>
       ELSE /\ ypc' = "collect"
            /\ futures' = [i \in BatchRows(batch_num) |-> Queued]
            /\ results' = {}
    /\ UNCHANGED <<batch_num, quota_exceeded, df_stats, output_csv,
                   late_requests>>
    /\ UNCHANGED <<parseVars, aggVars, mergeVars, fetchVars, collectVars, dailyVars,
                   politeVars,
                   keyVars,
                   pureVars,
                   ratioVars,
                   tmdbVars,
                   resumeVars>>

\* The worker that holds the row sends its request.  Free workers take
\* the rows from the queue of the pool oldest first, so a row is held by a
\* worker when fewer than Workers older rows are unfinished; a worker that
\* holds a row sends its request at any later time, also after the request
\* of a younger row.  The pool runs queued work until it is empty, also
\* while the with block waits in shutdown(wait=True).
StartRequest(i) ==
    /\ ypc \in {"collect", "shutdown"}
    /\ i \in DOMAIN futures
    /\ futures[i].state = "queued"
    /\ Cardinality({j \in DOMAIN futures :
                       j < i /\ futures[j].state # "done"}) < Workers
    /\ futures' = [futures EXCEPT ![i].state = "running"]
    /\ late_requests' = IF quota_exceeded THEN late_requests + 1
                        ELSE late_requests
    /\ UNCHANGED <<ypc, batch_num, quota_exceeded, results, df_stats,
                   output_csv>>
    /\ UNCHANGED <<parseVars, aggVars, mergeVars, fetchVars, collectVars, dailyVars,
                   politeVars,
                   keyVars,
                   pureVars,
                   ratioVars,
                   tmdbVars,
                   resumeVars>>

\* The request returns and process_row returns its result.
FinishRequest(i) ==
    /\ i \in DOMAIN futures
    /\ futures[i].state = "running"
    /\ \E r \in ProcessRowResults :
          futures' = [futures EXCEPT ![i].state = "done", ![i].result = r]
    /\ UNCHANGED <<ypc, batch_num, quota_exceeded, results, df_stats,
                   output_csv, late_requests>>
    /\ UNCHANGED <<parseVars, aggVars, mergeVars, fetchVars, collectVars, dailyVars,
                   politeVars,
                   keyVars,
                   pureVars,
                   ratioVars,
                   tmdbVars,
                   resumeVars>>

\* as_completed hands main a finished future: on QUOTA_EXCEEDED set the
\* flag and break, else keep a result that is not None.
ConsumeResult(i) ==
    /\ ypc = "collect"
    /\ i \in DOMAIN futures
    /\ futures[i].state = "done"
    /\ ~futures[i].consumed
    /\ futures' = [futures EXCEPT ![i].consumed = TRUE]
    /\ IF futures[i].result = "QUOTA_EXCEEDED"
       THEN /\ quota_exceeded' = TRUE
            /\ ypc' = "shutdown"
            /\ UNCHANGED results
       ELSE /\ results' = IF futures[i].result = "stats"
                          THEN results \cup {i} ELSE results
            /\ ypc' = IF \A j \in DOMAIN futures : j = i \/ futures[j].consumed
                      THEN "shutdown" ELSE "collect"
            /\ UNCHANGED quota_exceeded
    /\ UNCHANGED <<batch_num, df_stats, output_csv, late_requests>>
    /\ UNCHANGED <<parseVars, aggVars, mergeVars, fetchVars, collectVars, dailyVars,
                   politeVars,
                   keyVars,
                   pureVars,
                   ratioVars,
                   tmdbVars,
                   resumeVars>>

\* The with block ends once every submitted row has run; then df is
\* updated from results and saved.
SaveProgress ==
    /\ ypc = "shutdown"
    /\ \A j \in DOMAIN futures : futures[j].state = "done"
    /\ ypc' = "loop_top"
    /\ df_stats' = df_stats \cup results
    /\ output_csv' = df_stats \cup results
    /\ batch_num' = batch_num + 1
    /\ UNCHANGED <<futures, quota_exceeded, results, late_requests>>
    /\ UNCHANGED <<parseVars, aggVars, mergeVars, fetchVars, collectVars, dailyVars,
                   politeVars,
                   keyVars,
                   pureVars,
                   ratioVars,
                   tmdbVars,
                   resumeVars>>

QuotaNext ==
    \/ SubmitBatch
    \/ \E i \in 1..NumRows : StartRequest(i)
    \/ \E i \in 1..NumRows : FinishRequest(i)
    \/ \E i \in 1..NumRows : ConsumeResult(i)
    \/ SaveProgress

SpecQuotaInit ==
    QuotaInit /\ ParseIdle /\ AggIdle /\ MergeIdle /\ FetchIdle /\ CollectIdle
    /\ DailyIdle
    /\ PoliteIdle
    /\ KeyIdle
    /\ PureIdle
    /\ RatioIdle
    /\ TmdbIdle
    /\ ResumeIdle

SpecQuota == SpecQuotaInit /\ [][QuotaNext]_vars

\* C14 as claimed: once main has seen QUOTA_EXCEEDED no worker issues a
\* further request, for the rest of the batch or for later batches.
C14_Claimed_NoRequestAfterQuota == late_requests = 0

-----------------------------------------------------------------------------
(* Requests to Box Office Mojo and the sleeps between them, in a run of    *)
(* collect_year_batch and in a run of update_bom_data (search_movie, then  *)
(* get_box_office_data for a movie that was found).                        *)

MaxMovies == 3       \* most rows of movies_to_update

\* nan_titles: the rows of movies_to_update whose title cell is empty, which
\* read_csv gives as NaN.
PoliteJobs ==
    [fn : {"collect_year_batch"}, strategy : Strategies, movies : {0},
     nan_titles : {{}}]
    \cup UNION {[fn : {"update_bom_data"}, strategy : {"none"}, movies : {n},
                 nan_titles : SUBSET (1..n)] : n \in 1..MaxMovies}

\* The passes of the job's loop.
Passes(j) ==
    IF j.fn = "collect_year_batch"
    THEN Len(YearDates[DefaultYear][j.strategy])
    ELSE j.movies

\* What search_movie meets: a result page with a /release/ link, a page
\* without one, another status, an exception of requests.get.
SearchOutcomes == {"found", "no link", "not 200", "exception"}

\* What get_box_office_data meets.
PageOutcomes == {"200", "not 200", "exception"}

\* search_movie(title, year): the request, and time.sleep(2) unless the
\* function returned the link or the request raised.
SearchMovieEvents(o) ==
    IF o \in {"found", "exception"} THEN <<"request">>
    ELSE <<"request", "sleep">>

\* get_box_office_data(movie_url): the request, and time.sleep(2) unless
\* the function returned the data or the request raised.
GetBoxOfficeDataEvents(o) ==
    IF o \in {"200", "exception"} THEN <<"request">>
    ELSE <<"request", "sleep">>

PoliteInit ==
    /\ rpc \in {"fetch", "search"}
    /\ rjob \in PoliteJobs
    /\ rpc = IF rjob.fn = "collect_year_batch" THEN "fetch" ELSE "search"
    /\ rdone = 0
    /\ rlog = <<>>

\* collect_year_batch: daily_df = self.scrape_daily_data(date_str)
YearBatchRequest ==
    /\ rpc = "fetch"
    /\ rdone < Passes(rjob)
    /\ rpc' = "sleep"
    /\ rlog' = Append(rlog, "request")
    /\ UNCHANGED <<rjob, rdone>>
    /\ UNCHANGED <<parseVars, aggVars, mergeVars, fetchVars, collectVars,
                   dailyVars, quotaVars,
                   keyVars,
                   pureVars,
                   ratioVars,
                   tmdbVars,
                   resumeVars>>

\* collect_year_batch: time.sleep(2), the end of the pass.
YearBatchSleep ==
    /\ rpc = "sleep"
    /\ rlog' = Append(rlog, "sleep")
    /\ rdone' = rdone + 1
    /\ rpc' = IF rdone + 1 < Passes(rjob) THEN "fetch" ELSE "done"
    /\ UNCHANGED rjob
    /\ UNCHANGED <<parseVars, aggVars, mergeVars, fetchVars, collectVars,
                   dailyVars, quotaVars,
                   keyVars,
                   pureVars,
                   ratioVars,
                   tmdbVars,
                   resumeVars>>

\* update_bom_data: movie_url = bom.search_movie(title, year)
SearchMovie ==
    /\ rpc = "search"
    /\ rdone < Passes(rjob)
    /\ \E o \in SearchOutcomes :
          /\ rlog' = rlog \o SearchMovieEvents(o)
          /\ rpc' = IF o = "found" THEN "get" ELSE "row_sleep"
    /\ UNCHANGED <<rjob, rdone>>
    /\ UNCHANGED <<parseVars, aggVars, mergeVars, fetchVars, collectVars,
                   dailyVars, quotaVars,
                   keyVars,
                   pureVars,
                   ratioVars,
                   tmdbVars,
                   resumeVars>>

\* update_bom_data: box_office = bom.get_box_office_data(movie_url)
GetBoxOfficeData ==
    /\ rpc = "get"
    /\ \E o \in PageOutcomes : rlog' = rlog \o GetBoxOfficeDataEvents(o)
    /\ rpc' = "row_sleep"
    /\ UNCHANGED <<rjob, rdone>>
    /\ UNCHANGED <<parseVars, aggVars, mergeVars, fetchVars, collectVars,
                   dailyVars, quotaVars,
                   keyVars,
                   pureVars,
                   ratioVars,
                   tmdbVars,
                   resumeVars>>

\* update_bom_data: the end of the pass.  title[:40] raises TypeError on a
\* NaN title and the except branch goes on to the next row; otherwise
\* time.sleep(3).
RowSleep ==
    /\ rpc = "row_sleep"
    /\ rlog' = IF rdone + 1 \in rjob.nan_titles THEN rlog
               ELSE Append(rlog, "sleep")
    /\ rdone' = rdone + 1
    /\ rpc' = IF rdone + 1 < Passes(rjob) THEN "search" ELSE "done"
    /\ UNCHANGED rjob
    /\ UNCHANGED <<parseVars, aggVars, mergeVars, fetchVars, collectVars,
                   dailyVars, quotaVars,
                   keyVars,
                   pureVars,
                   ratioVars,
                   tmdbVars,
                   resumeVars>>

PoliteNext ==
    \/ YearBatchRequest
    \/ YearBatchSleep
    \/ SearchMovie
    \/ GetBoxOfficeData
    \/ RowSleep

SpecPoliteInit ==
    PoliteInit /\ ParseIdle /\ AggIdle /\ MergeIdle /\ FetchIdle /\ CollectIdle
    /\ DailyIdle /\ QuotaIdle
    /\ KeyIdle
    /\ PureIdle
    /\ RatioIdle
    /\ TmdbIdle
    /\ ResumeIdle

SpecPolite == SpecPoliteInit /\ [][PoliteNext]_vars

\* C15 as claimed: a sleep lies between every two consecutive requests of
\* a run.
C15_Claimed_SleepBetweenRequests ==
    \A i \in 1..(Len(rlog) - 1) :
        ~(rlog[i] = "request" /\ rlog[i + 1] = "request")

-----------------------------------------------------------------------------
(* The rows of the merged dataset.                                         *)

\* The rows of a table that belong to the movie with the identifier.
RowsOfMovie(df, id) == {k \in 1..Len(df) : df[k].tmdb_id = id}

\* C18 as claimed: after the merge of collect_all_years or of
\* update_main_dataset the dataset holds the same movies as before, each
\* exactly once: no movie row is duplicated or dropped.
C18_Claimed_OneRowPerMovie ==
    mpc \in {"collect_all_years", "update_main_dataset"} =>
        /\ \A i \in 1..Len(main_df) :
              Cardinality(RowsOfMovie(merged_df, main_df[i].tmdb_id)) = 1
        /\ \A k \in 1..Len(merged_df) :
              RowsOfMovie(main_df, merged_df[k].tmdb_id) # {}

-----------------------------------------------------------------------------
(* The sampling interval of the strategies.                                *)

\* Days from each selected date to the next one.
Gaps(dates) ==
    {ToOrdinal(dates[i + 1]) - ToOrdinal(dates[i]) : i \in 1..(Len(dates) - 1)}

\* Is one of the dates within the first week of a release on that day?
Sampled(dates, release_date) ==
    \E i \in 1..Len(dates) : InFirstWeek(dates[i], release_date)

\* C17 as claimed: under the strategy of the run, consecutive selected
\* dates of the year are at most 7 days apart, and a movie released in the
\* year has a selected date within its first 7 days.
C17_Claimed_IntervalAtMostSevenDays ==
    strategy \in Strategies =>
        /\ \A g \in Gaps(SelectedDates[strategy]) : g <= WeekLastDay + 1
        /\ movie.release_date[1] = DefaultYear =>
               Sampled(SelectedDates[strategy], movie.release_date)

-----------------------------------------------------------------------------
(* The API key of the YouTube worker threads.  Two thread pools run their  *)
(* workers over code that rotates keys: MovieDataPipeline.enrich_with_     *)
(* youtube, whose workers call the one YouTubeCollector of the pipeline,   *)
(* and complete_stats, whose workers call get_youtube_stats over the       *)
(* module-level current_key_index.  A step is one read or one write of a   *)
(* worker: threads are switched between any two of them.                   *)

NumKeys == 3
KeyWorkers == 2
KeyRows == 3
KeyBatchSize == 2
\* The depth at which the interpreter ends a recursion with RecursionError.
RecursionLimit == 4

KeyIndices == 0..(NumKeys - 1)
WorkerIds == 1..KeyWorkers

\* len(YOUTUBE_API_KEYS) - 1, the last index switch_to_next_key moves to.
LastKeyIndex == NumKeys - 1

\* switch_to_next_key: if current_key_index < len(YOUTUBE_API_KEYS) - 1
CanSwitch(index) == index < LastKeyIndex

\* The index the increment stores, from the index it loaded:
\* _rotate_key wraps around, switch_to_next_key adds one.
NextIndex(fn, index) ==
    IF fn = "enrich_with_youtube" THEN (index + 1) % NumKeys ELSE index + 1

\* The function a worker of the job calls first.
FirstCall(j) ==
    IF j = "enrich_with_youtube" THEN "search_movie_trailer"
    ELSE "get_youtube_stats"

\* What a request meets: an answer, the quota error, any other failure.
\* A key whose quota is used up answers no request.
KeyOutcomes(k) ==
    IF k \in exhausted THEN {"quota", "error"} ELSE {"ok", "quota", "error"}

\* total_batches = (len(needs_stats) + batch_size - 1) // batch_size
KeyTotalBatches == (KeyRows + KeyBatchSize - 1) \div KeyBatchSize

\* len(batch) of batch b, from 0
KeyBatchLen(b) == Min(KeyBatchSize, KeyRows - b * KeyBatchSize)

KeyInit ==
    /\ kpc = "pool"
    /\ kbatch = 0
    /\ kstats = 0
    /\ kjob \in {"enrich_with_youtube", "complete_stats"}
    /\ current_key_index = 0
    /\ service_key = 0
    /\ exhausted \in SUBSET KeyIndices
    /\ todo = KeyBatchLen(0)
    /\ wpc = [w \in WorkerIds |-> [at |-> "idle", fn |-> "none"]]
    /\ wkey = [w \in WorkerIds |-> 0]
    /\ wlocal = [w \in WorkerIds |-> 0]
    /\ wdepth = [w \in WorkerIds |-> 0]
    /\ requested = {}
    /\ quota_403 = {}

\* The worker is at position a of its function.
At(w, a) == wpc[w].at = a

\* The worker moves to position a of the function it is in.
Goto(w, a) == wpc' = [wpc EXCEPT ![w].at = a]

\* The worker's call returns to the pool: the future holds the result.
Return(w) == wpc' = [wpc EXCEPT ![w] = [at |-> "idle", fn |-> "none"]]

\* executor.submit(fetch_youtube, data) / executor.submit(process_row, row):
\* a free worker takes the next row.
TakeRow(w) ==
    /\ kpc = "pool"
    /\ At(w, "idle")
    /\ todo > 0
    /\ todo' = todo - 1
    /\ wpc' = [wpc EXCEPT ![w] = [at |-> "read", fn |-> FirstCall(kjob)]]
    /\ wdepth' = [wdepth EXCEPT ![w] = 0]
    /\ UNCHANGED <<kpc, kbatch, kstats, kjob, current_key_index, service_key, exhausted,
                   wkey, wlocal, requested, quota_403>>
    /\ UNCHANGED <<parseVars, aggVars, mergeVars, fetchVars, collectVars,
                   dailyVars, quotaVars, politeVars,
                   pureVars,
                   ratioVars,
                   tmdbVars,
                   resumeVars>>

\* The worker reads the key and sends its request.
\* get_youtube_stats: 'key': get_current_api_key(), outside the try of its
\* own call.  With an index past the list the first call of a row raises
\* IndexError out of the worker; a retry is called from inside the try of
\* the calling frame, whose except swallows the error: the row gets None.
\* YouTubeCollector: self.youtube.search().list(...) or .videos().list(...)
ReadKey(w) ==
    /\ At(w, "read")
    /\ IF kjob = "complete_stats"
       THEN IF current_key_index \in KeyIndices
            THEN /\ wkey' = [wkey EXCEPT ![w] = current_key_index]
                 /\ requested' = requested \cup {current_key_index}
                 /\ Goto(w, "request")
            ELSE /\ IF wdepth[w] = 0
                    THEN wpc' = [wpc EXCEPT ![w].at = "IndexError"]
                    ELSE Return(w)
                 /\ UNCHANGED <<wkey, requested>>
       ELSE /\ wkey' = [wkey EXCEPT ![w] = service_key]
            /\ requested' = requested \cup {service_key}
            /\ Goto(w, "request")
    /\ UNCHANGED <<kpc, kbatch, kstats, kjob, current_key_index, service_key, exhausted,
                   todo, wlocal, wdepth, quota_403>>
    /\ UNCHANGED <<parseVars, aggVars, mergeVars, fetchVars, collectVars,
                   dailyVars, quotaVars, politeVars,
                   pureVars,
                   ratioVars,
                   tmdbVars,
                   resumeVars>>

\* The response of the API arrives.
\* get_youtube_stats: 403 with 'quota' in the body, 200, or anything else.
\* YouTubeCollector: request.execute() returns or raises, 'quotaExceeded'
\* in the message or not.
Respond(w) ==
    /\ At(w, "request")
    /\ \E o \in KeyOutcomes(wkey[w]) :
          CASE o = "quota" ->
                 /\ exhausted' = exhausted \cup {wkey[w]}
                 /\ quota_403' = quota_403 \cup {wkey[w]}
                 /\ Goto(w, IF kjob = "complete_stats" THEN "quota_branch"
                            ELSE "load")
                 /\ UNCHANGED <<wdepth, kstats>>
            [] o = "ok" /\ wpc[w].fn = "search_movie_trailer" ->
                 /\ wpc' = [wpc EXCEPT ![w] =
                               [at |-> "read", fn |-> "get_video_stats"]]
                 /\ wdepth' = [wdepth EXCEPT ![w] = 0]
                 /\ UNCHANGED <<exhausted, quota_403, kstats>>
            [] o = "ok" /\ wpc[w].fn # "search_movie_trailer" ->
                 /\ Return(w)
                 /\ kstats' = kstats + 1
                 /\ UNCHANGED <<exhausted, quota_403, wdepth>>
            [] OTHER ->
                 /\ Return(w)
                 /\ UNCHANGED <<exhausted, quota_403, wdepth, kstats>>
    /\ UNCHANGED <<kpc, kbatch, kjob, current_key_index, service_key, todo, wkey,
                   wlocal, requested>>
    /\ UNCHANGED <<parseVars, aggVars, mergeVars, fetchVars, collectVars,
                   dailyVars, quotaVars, politeVars,
                   pureVars,
                   ratioVars,
                   tmdbVars,
                   resumeVars>>

\* get_youtube_stats: if current_key_index < len(YOUTUBE_API_KEYS) - 1,
\* else "All API keys exhausted" and return None.
QuotaBranch(w) ==
    /\ At(w, "quota_branch")
    /\ IF CanSwitch(current_key_index) THEN Goto(w, "switch_guard")
       ELSE Return(w)
    /\ UNCHANGED <<kpc, kbatch, kstats, kjob, current_key_index, service_key, exhausted,
                   todo, wkey, wlocal, wdepth, requested, quota_403>>
    /\ UNCHANGED <<parseVars, aggVars, mergeVars, fetchVars, collectVars,
                   dailyVars, quotaVars, politeVars,
                   pureVars,
                   ratioVars,
                   tmdbVars,
                   resumeVars>>

\* switch_to_next_key: the test of its if; return None when it fails, and
\* get_youtube_stats then returns None.
SwitchGuard(w) ==
    /\ At(w, "switch_guard")
    /\ IF CanSwitch(current_key_index) THEN Goto(w, "load")
       ELSE Return(w)
    /\ UNCHANGED <<kpc, kbatch, kstats, kjob, current_key_index, service_key, exhausted,
                   todo, wkey, wlocal, wdepth, requested, quota_403>>
    /\ UNCHANGED <<parseVars, aggVars, mergeVars, fetchVars, collectVars,
                   dailyVars, quotaVars, politeVars,
                   pureVars,
                   ratioVars,
                   tmdbVars,
                   resumeVars>>

\* The read of the increment: current_key_index += 1, and
\* self.current_key_index = (self.current_key_index + 1) % len(...)
LoadIndex(w) ==
    /\ At(w, "load")
    /\ wlocal' = [wlocal EXCEPT ![w] = current_key_index]
    /\ Goto(w, "store")
    /\ UNCHANGED <<kpc, kbatch, kstats, kjob, current_key_index, service_key, exhausted,
                   todo, wkey, wdepth, requested, quota_403>>
    /\ UNCHANGED <<parseVars, aggVars, mergeVars, fetchVars, collectVars,
                   dailyVars, quotaVars, politeVars,
                   pureVars,
                   ratioVars,
                   tmdbVars,
                   resumeVars>>

\* The write of the increment.
StoreIndex(w) ==
    /\ At(w, "store")
    /\ current_key_index' = NextIndex(kjob, wlocal[w])
    /\ Goto(w, "new_key")
    /\ UNCHANGED <<kpc, kbatch, kstats, kjob, service_key, exhausted, todo, wkey, wlocal,
                   wdepth, requested, quota_403>>
    /\ UNCHANGED <<parseVars, aggVars, mergeVars, fetchVars, collectVars,
                   dailyVars, quotaVars, politeVars,
                   pureVars,
                   ratioVars,
                   tmdbVars,
                   resumeVars>>

\* The worker takes up the new key and calls its function again.
\* switch_to_next_key: return get_current_api_key(), inside the try of
\* get_youtube_stats, so an index past the list ends the call with None;
\* then time.sleep(1) and get_youtube_stats(video_id, retry_count + 1).
\* wdepth counts the retries of the call (retry_count).
\* _rotate_key: _build_service reads self.current_key_index and builds a
\* service with that key; the service is stored in a later step.
NewKey(w) ==
    /\ At(w, "new_key")
    /\ IF kjob = "complete_stats"
       THEN /\ IF current_key_index \in KeyIndices
               THEN /\ Goto(w, "read")
                    /\ wdepth' = [wdepth EXCEPT ![w] = wdepth[w] + 1]
               ELSE /\ Return(w)
                    /\ UNCHANGED wdepth
            /\ UNCHANGED <<service_key, wlocal>>
       ELSE /\ wlocal' = [wlocal EXCEPT ![w] = current_key_index]
            /\ Goto(w, "store_service")
            /\ UNCHANGED <<service_key, wdepth>>
    /\ UNCHANGED <<kpc, kbatch, kstats, kjob, current_key_index, exhausted, todo, wkey,
                   requested, quota_403>>
    /\ UNCHANGED <<parseVars, aggVars, mergeVars, fetchVars, collectVars,
                   dailyVars, quotaVars, politeVars,
                   pureVars,
                   ratioVars,
                   tmdbVars,
                   resumeVars>>

\* _rotate_key: self.youtube = <the service built>, then the function calls
\* itself, until the interpreter ends the recursion: RecursionError is
\* raised either while the service is built, which leaves the old service
\* in place, or in the request of the next call.
StoreService(w) ==
    /\ At(w, "store_service")
    /\ IF wdepth[w] < RecursionLimit
       THEN /\ service_key' = wlocal[w]
            /\ Goto(w, "read")
            /\ wdepth' = [wdepth EXCEPT ![w] = wdepth[w] + 1]
       ELSE /\ service_key' \in {service_key, wlocal[w]}
            /\ Return(w)
            /\ UNCHANGED wdepth
    /\ UNCHANGED <<kpc, kbatch, kstats, kjob, current_key_index, exhausted, todo, wkey,
                   wlocal, requested, quota_403>>
    /\ UNCHANGED <<parseVars, aggVars, mergeVars, fetchVars, collectVars,
                   dailyVars, quotaVars, politeVars,
                   pureVars,
                   ratioVars,
                   tmdbVars,
                   resumeVars>>

\* Has every future of the batch finished?  The with block of the executor
\* ends when all have.
BatchFinished ==
    /\ todo = 0
    /\ \A w \in WorkerIds : wpc[w].at \in {"idle", "IndexError"}

\* The main thread after the with block: the results are stored and saved,
\* then the next batch starts or the loop ends.
\* complete_stats: future.result() re-raises a worker's IndexError; the
\* loop breaks with "All API keys exhausted" when current_key_index is the
\* last index and a row is still without statistics.
\* enrich_with_youtube: every batch is processed.
EndBatch ==
    /\ kpc = "pool"
    /\ BatchFinished
    /\ IF kjob = "complete_stats" /\ \E w \in WorkerIds : At(w, "IndexError")
       THEN /\ kpc' = "IndexError"
            /\ UNCHANGED <<kbatch, todo>>
       ELSE IF /\ kjob = "complete_stats"
               /\ current_key_index = LastKeyIndex
               /\ kstats < KeyRows
       THEN /\ kpc' = "keys_exhausted"
            /\ UNCHANGED <<kbatch, todo>>
       ELSE IF kbatch + 1 < KeyTotalBatches
       THEN /\ kbatch' = kbatch + 1
            /\ todo' = KeyBatchLen(kbatch + 1)
            /\ UNCHANGED kpc
       ELSE /\ kpc' = "done"
            /\ UNCHANGED <<kbatch, todo>>
    /\ UNCHANGED <<kstats, kjob, current_key_index, service_key, exhausted,
                   wpc, wkey, wlocal, wdepth, requested, quota_403>>
    /\ UNCHANGED <<parseVars, aggVars, mergeVars, fetchVars, collectVars,
                   dailyVars, quotaVars, politeVars, pureVars, ratioVars,
                   tmdbVars,
                   resumeVars>>

KeyNext ==
    \/ EndBatch
    \/ \E w \in WorkerIds :
        \/ TakeRow(w)
        \/ ReadKey(w)
        \/ Respond(w)
        \/ QuotaBranch(w)
        \/ SwitchGuard(w)
        \/ LoadIndex(w)
        \/ StoreIndex(w)
        \/ NewKey(w)
        \/ StoreService(w)

SpecKeyInit ==
    KeyInit /\ ParseIdle /\ AggIdle /\ MergeIdle /\ FetchIdle /\ CollectIdle
    /\ DailyIdle /\ QuotaIdle /\ PoliteIdle
    /\ PureIdle
    /\ RatioIdle
    /\ TmdbIdle
    /\ ResumeIdle

SpecKey == SpecKeyInit /\ [][KeyNext]_vars

\* C16 as claimed: the workers share no mutable state, so no step of a
\* worker changes what another worker reads: the key index and the service
\* built from it stay as they were when the pool started.
C16_Claimed_WorkersShareNoState ==
    [][current_key_index' = current_key_index
       /\ service_key' = service_key]_vars

\* C19 as claimed: complete_stats has moved past key k only after a request
\* with key k came back quota-exceeded, and no key was skipped unused.
C19_Claimed_SwitchOnlyOnExhaustedKey ==
    kjob = "complete_stats" =>
        \A k \in KeyIndices :
            k < current_key_index => k \in requested /\ k \in quota_403

-----------------------------------------------------------------------------
(* The order of arrival of the daily records.                              *)

\* The rows of a table in every order of arrival.
Arrivals(recs) ==
    LET n == Len(recs)
        perms == {f \in [1..n -> 1..n] : \A i, j \in 1..n : i # j => f[i] # f[j]}
    IN {[i \in 1..n |-> recs[f[i]]] : f \in perms}

\* The feature rows aggregate_movie_features may return for the movie over
\* a batch.
MovieFeatureRows(batch, m) ==
    IF ~HasBomUrl(m) \/ MovieBatch(batch, m) = <<>> THEN {<<>>}
    ELSE {RowsOfWeek(m, FirstWeekOf(m, sorted)) :
             sorted \in DateSorts(MovieBatch(batch, m))}

\* What scrape_movie_daily_data returns for the movie over the rows of its
\* daily page.
PageFeatureRows(page, m) ==
    IF ~HasBomUrl(m) \/ page = <<>> THEN <<>>
    ELSE ScrapedRows(m, PageFirstWeek(m, DailyPage(page)))

\* C21 as claimed: the feature values, the opening-day fields included, do
\* not depend on the order in which the daily records arrived: over every
\* permutation of the rows, aggregate_movie_features and
\* scrape_movie_daily_data return what they returned.
C21_Claimed_ArrivalOrderIndependent ==
    /\ apc = "aggregate_movie_features" =>
          \A p \in Arrivals(batch_df) : MovieFeatureRows(p, movie) = {features}
    /\ apc = "scrape_movie_daily_data" =>
          \A p \in Arrivals(batch_df) : PageFeatureRows(p, movie) = features

-----------------------------------------------------------------------------
(* The days a feature row was tracked over.                                *)

\* The calendar dates observed among records.
DatesOf(recs) == {recs[i].date : i \in 1..Len(recs)}

\* C22 as claimed: in every feature row emitted by aggregate_movie_features
\* or scrape_movie_daily_data, first_week_days_tracked is the number of
\* distinct calendar dates among the movie's windowed records, and lies
\* between 1 and 7.
C22_Claimed_DaysTrackedCountsDates ==
    (/\ apc \in {"aggregate_movie_features", "scrape_movie_daily_data"}
     /\ features # <<>>)
    => /\ features[1].first_week_days_tracked = Cardinality(DatesOf(first_week))
       /\ features[1].first_week_days_tracked \in 1..(WeekLastDay + 1)

-----------------------------------------------------------------------------
(* aggregate_movie_features(batch_df, df_main) as its callers see it: the  *)
(* dataset read from the CSV file, the batch, one call, and what the call  *)
(* leaves in its two arguments.                                            *)

MaxMain == 2         \* most rows of the dataset passed in

\* A release_date cell as read_csv leaves it: the text 'YYYY-MM-DD'.
StrCell(d) == [kind |-> "str", date |-> d]

\* A release_date cell of a datetime64 column.
Timestamp(d) == [kind |-> "Timestamp", date |-> d]

\* pd.to_datetime on a cell: a date text is parsed, a Timestamp is kept.
to_datetime(v) == IF v.kind = "str" THEN Timestamp(v.date) ELSE v

\* df_main['release_date'] = pd.to_datetime(df_main['release_date'])
ConvertReleaseDates(main) ==
    [i \in 1..Len(main) |->
        [main[i] EXCEPT !.release_date = to_datetime(main[i].release_date)]]

\* The row the loop body reads: title, release_date, bom_url.
MovieOfRow(row) ==
    [title |-> row.title,
     release_date |-> row.release_date.date,
     bom_url |-> row.bom_url]

\* The results lists the loop over df_main may build.
RECURSIVE AggregateResults(_, _)
AggregateResults(batch, main) ==
    IF main = <<>> THEN {<<>>}
    ELSE {rows \o rest :
             rows \in MovieFeatureRows(batch, MovieOfRow(Head(main))),
             rest \in AggregateResults(batch, Tail(main))}

PureReleaseDates == {FromOrdinal(Jan1 - 5), FromOrdinal(Jan1)}

MainRows ==
    [title : MovieTitles,
     release_date : {StrCell(d) : d \in PureReleaseDates},
     bom_url : {"NaN", "url"}]

PureInit ==
    /\ upc = "loaded"
    /\ df_main \in SeqsUpTo(MainRows, MaxMain)
    /\ df_main # <<>>
    /\ batch_arg = <<>>
    /\ agg_result = <<>>

\* A listing row of the batch the collector returned.
BatchRow ==
    /\ upc = "loaded"
    /\ Len(batch_arg) < MaxBatch
    /\ \E d \in FocusDates["smart"], t \in ListedTitles, c \in ListingCells :
          /\ \A i \in 1..Len(batch_arg) :
                batch_arg[i].date # d \/ batch_arg[i].release # t
          /\ batch_arg' = Append(batch_arg, DailyRecord(d, t, c[1], c[2]))
    /\ UNCHANGED <<upc, df_main, agg_result>>
    /\ UNCHANGED <<parseVars, aggVars, mergeVars, fetchVars, collectVars,
                   dailyVars, quotaVars, politeVars, keyVars,
                   ratioVars,
                   tmdbVars,
                   resumeVars>>

\* features_df = aggregate_movie_features(batch_df, df_main), called when
\* the collector returned a batch.
CallAggregateMovieFeatures ==
    /\ upc = "loaded"
    /\ batch_arg # <<>>
    /\ upc' = "aggregate_movie_features"
    /\ df_main' = ConvertReleaseDates(df_main)
    /\ agg_result' \in AggregateResults(batch_arg, ConvertReleaseDates(df_main))
    /\ UNCHANGED batch_arg
    /\ UNCHANGED <<parseVars, aggVars, mergeVars, fetchVars, collectVars,
                   dailyVars, quotaVars, politeVars, keyVars,
                   ratioVars,
                   tmdbVars,
                   resumeVars>>

PureNext ==
    \/ BatchRow
    \/ CallAggregateMovieFeatures

SpecPureInit ==
    PureInit /\ ParseIdle /\ AggIdle /\ MergeIdle /\ FetchIdle /\ CollectIdle
    /\ DailyIdle /\ QuotaIdle /\ PoliteIdle /\ KeyIdle
    /\ RatioIdle
    /\ TmdbIdle
    /\ ResumeIdle

SpecPure == SpecPureInit /\ [][PureNext]_vars

\* C23 as claimed: a call of aggregate_movie_features leaves both of its
\* arguments, the batch of daily records and the movie dataset, unchanged
\* in every column.
C23_Claimed_ArgumentsUnchanged ==
    [][upc' = "aggregate_movie_features" =>
          (batch_arg' = batch_arg /\ df_main' = df_main)]_vars

-----------------------------------------------------------------------------
(* The derived ratios of aggregate_daily_features: the reductions over the *)
(* matched records sorted by date, and the four guarded quotients.  A null *)
(* cell of a numeric column is NaN; the None of an else branch is None.    *)

MaxSeries == 14      \* most matched records of the movie

Opening3Days == 3
Week1Days == 7
Week2Days == 14

IsNaN(v) == v.kind = "nan"

\* Truth value of a feature in an if: None and 0.0 are false, NaN is true.
IsTrue(v) == v.kind = "nan" \/ (v.kind = "float" /\ v.num # 0)

\* v > 0: false for NaN.
GreaterThanZero(v) == v.kind = "float" /\ v.num > 0

NotNaN(vs) == SelectSeq(vs, LAMBDA v : ~IsNaN(v))

\* Series.mean(): NaN cells are skipped, the mean of nothing is NaN.
SeriesMean(vs) ==
    LET nn == NotNaN(vs)
    IN IF nn = <<>> THEN NaNVal ELSE FloatVal(SumNums(nn), Len(nn))

\* Series.max()
SeriesMaxNaN(vs) ==
    LET nn == NotNaN(vs)
    IN IF nn = <<>> THEN NaNVal
       ELSE FloatVal(CHOOSE x \in {nn[i].num : i \in 1..Len(nn)} :
                        \A i \in 1..Len(nn) : nn[i].num <= x, 1)

\* Series.sum(): NaN cells are skipped, the sum of nothing is 0.0
SeriesSumNaN(vs) == FloatVal(SumNums(NotNaN(vs)), 1)

\* a - b of two floats
Minus(a, b) ==
    IF IsNaN(a) \/ IsNaN(b) THEN NaNVal
    ELSE FloatVal(a.num * b.den - b.num * a.den, a.den * b.den)

\* a / b of two numpy floats: NaN with a NaN operand, inf or NaN over 0.0
Divide(a, b) ==
    IF IsNaN(a) \/ IsNaN(b) THEN NaNVal
    ELSE IF b.num = 0 THEN (IF a.num = 0 THEN NaNVal
                            ELSE InfVal(IF a.num > 0 THEN 1 ELSE -1))
    ELSE Quotient(a, b)

\* movie_data[col].iloc[a:b]
Slice(md, col, a, b) ==
    [i \in 1..((IF Len(md) < b THEN Len(md) ELSE b) - a) |-> md[a + i][col]]

\* The entries of the features dict the derived ratios read.
RatioInputs(md) ==
    [daily_opening_theaters |-> md[1].theaters,
     daily_peak_theaters |-> SeriesMaxNaN(Column(md, "theaters")),
     daily_opening_per_theater |-> md[1].per_theater_avg,
     daily_avg_per_theater |-> SeriesMean(Column(md, "per_theater_avg")),
     daily_opening_3day_gross |->
         IF Len(md) >= Opening3Days
         THEN SeriesSumNaN(Slice(md, "daily_gross", 0, Opening3Days))
         ELSE NoneVal,
     daily_week1_avg_gross |->
         IF Len(md) >= Week1Days
         THEN SeriesMean(Slice(md, "daily_gross", 0, Week1Days))
         ELSE NoneVal,
     daily_week2_avg_gross |->
         IF Len(md) >= Week2Days
         THEN SeriesMean(Slice(md, "daily_gross", Week1Days, Week2Days))
         ELSE NoneVal,
     daily_final_gross |-> md[Len(md)].to_date_gross]

\* if a and b and guarded > 0: num / den, else None
GuardedRatio(a, b, guarded, num, den) ==
    IF IsTrue(a) /\ IsTrue(b) /\ GreaterThanZero(guarded)
    THEN Divide(num, den)
    ELSE NoneVal

\* The four derived features.
DerivedRatios(f) ==
    [daily_week2_week1_ratio |->
         GuardedRatio(f.daily_week1_avg_gross, f.daily_week2_avg_gross,
                      f.daily_week2_avg_gross,
                      f.daily_week2_avg_gross, f.daily_week1_avg_gross),
     daily_theater_expansion_ratio |->
         GuardedRatio(f.daily_peak_theaters, f.daily_opening_theaters,
                      f.daily_opening_theaters,
                      f.daily_peak_theaters, f.daily_opening_theaters),
     daily_opening_to_total_ratio |->
         GuardedRatio(f.daily_opening_3day_gross, f.daily_final_gross,
                      f.daily_final_gross,
                      f.daily_opening_3day_gross, f.daily_final_gross),
     daily_per_theater_decline_rate |->
         GuardedRatio(f.daily_opening_per_theater, f.daily_avg_per_theater,
                      f.daily_opening_per_theater,
                      Minus(f.daily_avg_per_theater,
                            f.daily_opening_per_theater),
                      f.daily_opening_per_theater)]

\* The cells of the movie's row on one listing page: nothing reported,
\* zeros, or one of two levels of business.
DayRow(level) ==
    IF level = "unreported"
    THEN [theaters |-> NaNVal, daily_gross |-> NaNVal,
          per_theater_avg |-> NaNVal, to_date_gross |-> NaNVal]
    ELSE LET n == IF level = "zero" THEN 0 ELSE IF level = "low" THEN 1 ELSE 2
         IN [theaters |-> FloatVal(n, 1), daily_gross |-> FloatVal(n, 1),
             per_theater_avg |-> FloatVal(n, 1), to_date_gross |-> FloatVal(n, 1)]

Levels == {"unreported", "zero", "low", "high"}

\* Consecutive listing days on which the movie's row stays at one level:
\* an opening weekend, the rest of a week, a week.
RunLengths == {Opening3Days, Week1Days - Opening3Days, Week1Days}

RatioInit ==
    /\ gpc = "series"
    /\ series = <<>>
    /\ derived = <<>>

\* The records of further listing days, matched to the movie.
MatchDays ==
    /\ gpc = "series"
    /\ \E level \in Levels, n \in RunLengths :
          /\ Len(series) + n <= MaxSeries
          /\ series' = series \o [i \in 1..n |-> DayRow(level)]
    /\ UNCHANGED <<gpc, derived>>
    /\ UNCHANGED <<parseVars, aggVars, mergeVars, fetchVars, collectVars,
                   dailyVars, quotaVars, politeVars, keyVars, pureVars,
                   tmdbVars,
                   resumeVars>>

\* The features dict and the derived features of aggregate_daily_features
\* over the matched records.
ComputeDerived ==
    /\ gpc = "series"
    /\ series # <<>>
    /\ gpc' = "aggregate_daily_features"
    /\ derived' = <<[inputs |-> RatioInputs(series),
                     ratios |-> DerivedRatios(RatioInputs(series))]>>
    /\ UNCHANGED series
    /\ UNCHANGED <<parseVars, aggVars, mergeVars, fetchVars, collectVars,
                   dailyVars, quotaVars, politeVars, keyVars, pureVars,
                   tmdbVars,
                   resumeVars>>

RatioNext ==
    \/ MatchDays
    \/ ComputeDerived

SpecRatioInit ==
    RatioInit /\ ParseIdle /\ AggIdle /\ MergeIdle /\ FetchIdle /\ CollectIdle
    /\ DailyIdle /\ QuotaIdle /\ PoliteIdle /\ KeyIdle /\ PureIdle
    /\ TmdbIdle
    /\ ResumeIdle

SpecRatio == SpecRatioInit /\ [][RatioNext]_vars

\* A feature without a value: the None of a list too short, or NaN.
IsNull(v) == v.kind \in {"None", "nan"}

\* One ratio as the claim has it: None without a numerator, without a
\* denominator or over zero, and their finite quotient otherwise.
ClaimedRatio(r, num, den) ==
    IF IsNull(num) \/ IsNull(den) \/ den.num = 0
    THEN r = NoneVal
    ELSE r = Quotient(num, den)

\* C24 as claimed: every derived ratio of aggregate_daily_features is None
\* when its numerator or denominator is null or its denominator is zero,
\* and the finite quotient otherwise; none is NaN or infinite.
C24_Claimed_RatiosGuarded ==
    gpc = "aggregate_daily_features" =>
        LET f == derived[1].inputs
            r == derived[1].ratios
        IN /\ ClaimedRatio(r.daily_week2_week1_ratio,
                           f.daily_week2_avg_gross, f.daily_week1_avg_gross)
           /\ ClaimedRatio(r.daily_theater_expansion_ratio,
                           f.daily_peak_theaters, f.daily_opening_theaters)
           /\ ClaimedRatio(r.daily_opening_to_total_ratio,
                           f.daily_opening_3day_gross, f.daily_final_gross)
           /\ ClaimedRatio(r.daily_per_theater_decline_rate,
                           Minus(f.daily_avg_per_theater,
                                 f.daily_opening_per_theater),
                           f.daily_opening_per_theater)

-----------------------------------------------------------------------------
(* A daily gross that is not reported.                                     *)

\* Do all the records lack a reported daily gross?
NoneReported(recs) ==
    \A i \in 1..Len(recs) : recs[i].daily_gross = NoneVal

\* The rows of the batch inside the movie's window, read as its daily page.
WindowedPageRows ==
    SelectSeq(batch_df, LAMBDA r : WithinFirstWeek(r.date))

\* C25 as claimed: a feature row of aggregate_movie_features or of
\* scrape_movie_daily_data whose windowed records all lack a reported daily
\* gross has a null first_week_gross and a null opening_gross, not 0.
C25_Claimed_UnreportedIsNotZero ==
    /\ (/\ apc = "aggregate_movie_features"
        /\ features # <<>>
        /\ NoneReported(WindowedRecords))
       => /\ features[1].first_week_gross = NoneVal
          /\ features[1].opening_gross = NoneVal
    /\ (/\ apc = "scrape_movie_daily_data"
        /\ features # <<>>
        /\ NoneReported(WindowedPageRows))
       => /\ features[1].first_week_gross = NoneVal
          /\ features[1].opening_gross = NoneVal

-----------------------------------------------------------------------------
(* The end of complete_stats.                                              *)

\* C26 as claimed: complete_stats stops before its last batch, with "All
\* API keys exhausted", only after every configured key, the last one
\* included, has answered a request with the quota 403.
C26_Claimed_StopsOnlyWhenAllKeysExhausted ==
    kpc = "keys_exhausted" => \A k \in KeyIndices : k \in quota_403

\* C27 as claimed: in every reachable state of the multi-key collector the
\* index is within the key list, 0 <= current_key_index <=
\* len(YOUTUBE_API_KEYS) - 1, and get_current_api_key never indexes past it.
C27_Claimed_IndexWithinKeyList ==
    kjob = "complete_stats" =>
        /\ current_key_index \in KeyIndices
        /\ \A w \in WorkerIds : ~At(w, "IndexError")

-----------------------------------------------------------------------------
(* The retries of YouTubeCollector.                                        *)

\* C28 as claimed: a call of search_movie_trailer or get_video_stats tries
\* each key at most once: it sends at most one request per configured key,
\* that is, it calls itself again fewer times than there are keys.
C28_Claimed_EachKeyTriedOnce ==
    kjob = "enrich_with_youtube" =>
        \A w \in WorkerIds : wdepth[w] < NumKeys

-----------------------------------------------------------------------------
(* TMDBCollector.get_popular_movies: the page loop of the discover         *)
(* endpoint.  A page answers with results, with an empty list, or its      *)
(* request raises: on the first attempt only, or on every attempt.         *)

\* The pages TMDB has answers for; every later page has no results.
MaxPages == 3

\* The number of movies on a page with results.
PageSize == 2

\* The largest total_movies.
MaxTotal == 4

PageKinds == {"results", "empty", "transient", "down"}

\* data['results'] of a page: the movies of a page with results.
ResultsOf(p) == [i \in 1..PageSize |-> <<p, i>>]

\* What the request for page p does on this attempt.
ResponseKind(p) ==
    IF p \notin DOMAIN responses THEN "empty"
    ELSE CASE responses[p] = "down" -> "raise"
           [] responses[p] = "transient" /\ p \notin failed_once -> "raise"
           [] responses[p] = "empty" -> "empty"
           [] OTHER -> "results"

\* for movie in data['results']: append until total_movies are collected.
AppendMovies(ms, found, total) ==
    ms \o SubSeq(found, 1, Min(Len(found), total - Len(ms)))

TmdbInit ==
    /\ tpc = "while"
    /\ total_movies \in 1..MaxTotal
    /\ responses \in [1..MaxPages -> PageKinds]
    /\ failed_once = {}
    /\ tmdb_page = 1
    /\ movies = <<>>

\* while len(movies) < total_movies
LoopTest ==
    /\ tpc = "while"
    /\ tpc' = IF Len(movies) < total_movies THEN "request" ELSE "return"
    /\ UNCHANGED <<total_movies, responses, failed_once, tmdb_page, movies>>
    /\ UNCHANGED <<parseVars, aggVars, mergeVars, fetchVars, collectVars,
                   dailyVars, quotaVars, politeVars, keyVars, pureVars,
                   ratioVars,
                   resumeVars>>

\* The body of the try: the request, the test for results, the appends and
\* page += 1.
RequestPage ==
    /\ tpc = "request"
    /\ CASE ResponseKind(tmdb_page) = "raise" ->
              /\ tpc' = "except"
              /\ failed_once' = failed_once \cup {tmdb_page}
              /\ UNCHANGED <<tmdb_page, movies>>
         [] ResponseKind(tmdb_page) = "empty" ->
              /\ tpc' = "return"
              /\ UNCHANGED <<failed_once, tmdb_page, movies>>
         [] OTHER ->
              /\ movies' = AppendMovies(movies, ResultsOf(tmdb_page),
                                        total_movies)
              /\ tmdb_page' = tmdb_page + 1
              /\ tpc' = "while"
              /\ UNCHANGED failed_once
    /\ UNCHANGED <<total_movies, responses>>
    /\ UNCHANGED <<parseVars, aggVars, mergeVars, fetchVars, collectVars,
                   dailyVars, quotaVars, politeVars, keyVars, pureVars,
                   ratioVars,
                   resumeVars>>

\* except Exception: print, sleep, continue.
ExceptContinue ==
    /\ tpc = "except"
    /\ tpc' = "while"
    /\ UNCHANGED <<total_movies, responses, failed_once, tmdb_page, movies>>
    /\ UNCHANGED <<parseVars, aggVars, mergeVars, fetchVars, collectVars,
                   dailyVars, quotaVars, politeVars, keyVars, pureVars,
                   ratioVars,
                   resumeVars>>

\* return pd.DataFrame(movies)
ReturnMovies ==
    /\ tpc = "return"
    /\ tpc' = "done"
    /\ UNCHANGED <<total_movies, responses, failed_once, tmdb_page, movies>>
    /\ UNCHANGED <<parseVars, aggVars, mergeVars, fetchVars, collectVars,
                   dailyVars, quotaVars, politeVars, keyVars, pureVars,
                   ratioVars,
                   resumeVars>>

TmdbNext ==
    \/ LoopTest
    \/ RequestPage
    \/ ExceptContinue
    \/ ReturnMovies

SpecTmdbInit ==
    TmdbInit /\ ParseIdle /\ AggIdle /\ MergeIdle /\ FetchIdle /\ CollectIdle
    /\ DailyIdle /\ QuotaIdle /\ PoliteIdle /\ KeyIdle /\ PureIdle
    /\ RatioIdle
    /\ ResumeIdle

\* The interpreter keeps executing the loop: a step that can be taken is
\* eventually taken.
SpecTmdb == SpecTmdbInit /\ [][TmdbNext]_vars /\ WF_vars(TmdbNext)

\* C29 as claimed: get_popular_movies terminates whatever the pages answer,
\* a page whose request fails on every attempt included.
C29_Claimed_Terminates == <>(tpc = "done")

-----------------------------------------------------------------------------
(* Resuming scrape_individual_movies.py: a first run of the script from    *)
(* index 0, then a second run started with start_idx = the number of       *)
(* movies the first run went through.  Titles are row numbers, all         *)
(* distinct; the scrape of one movie is any of its outcomes.               *)

\* The rows of the main dataset.
MaxCsv == 3

\* What scrape_movie_daily_data returns for a movie: None, or features whose
\* first_week_gross is a sum of grosses (0 when none was reported).
ScrapeOutcomes == {NoneVal, FloatVal(0, 1), FloatVal(100, 1)}

\* to_scrape = needs_scraping & has_budget & has_youtube, for one row.
ToScrape(row) ==
    /\ row.title \in ready_titles
    /\ row.vals["first_week_gross"].kind = "None"

\* df[to_scrape]
EligibleRows(df) == SelectSeq(df, ToScrape)

\* df[to_scrape].iloc[start_idx:], then .head(max_movies) if max_movies.
MoviesToScrape(df, start, most) ==
    LET el   == EligibleRows(df)
        rest == SubSeq(el, start + 1, Len(el))
    IN IF most # 0 THEN SubSeq(rest, 1, Min(most, Len(rest))) ELSE rest

TitlesOf(rows) == [i \in 1..Len(rows) |-> rows[i].title]

\* results.append({'tmdb_id': ..., 'title': ..., **first_week_data})
ResultRow(row, gross) ==
    [title |-> row.title,
     vals |-> [c \in ModelCols |->
                  IF c = "first_week_gross" THEN gross ELSE NoneVal]]

CsvRow(i, gross) ==
    [tmdb_id |-> i, title |-> i,
     vals |-> [c \in ModelCols |->
                  IF c = "first_week_gross" THEN gross ELSE NoneVal]]

ResumeInit ==
    /\ spc = "main"
    /\ run_no = 1
    /\ \E known \in SUBSET (1..MaxCsv) :
          csv_main = [i \in 1..MaxCsv |->
                         CsvRow(i, IF i \in known THEN FloatVal(100, 1)
                                   ELSE NoneVal)]
    /\ ready_titles \in SUBSET (1..MaxCsv)
    /\ start_idx = 0
    /\ max_movies \in 1..MaxCsv
    /\ movies_to_scrape = <<>>
    /\ idx = 0
    /\ scrape_results = <<>>
    /\ runs = <<>>

\* __main__ reads the dataset and calls scrape_movies_batch, which selects
\* the rows to scrape.
StartRun ==
    /\ spc = "main"
    /\ movies_to_scrape' = MoviesToScrape(csv_main, start_idx, max_movies)
    /\ idx' = 0
    /\ scrape_results' = <<>>
    /\ spc' = "loop"
    /\ UNCHANGED <<run_no, csv_main, ready_titles, start_idx, max_movies, runs>>
    /\ UNCHANGED <<parseVars, aggVars, mergeVars, fetchVars, collectVars,
                   dailyVars, quotaVars, politeVars, keyVars, pureVars,
                   ratioVars, tmdbVars>>

\* One pass of the loop over movies_to_scrape: a movie without data is
\* counted as failed and leaves no row.
ScrapeOne ==
    /\ spc = "loop"
    /\ idx < Len(movies_to_scrape)
    /\ \E first_week_data \in ScrapeOutcomes :
          scrape_results' =
              IF first_week_data.kind # "None"
              THEN Append(scrape_results,
                          ResultRow(movies_to_scrape[idx + 1], first_week_data))
              ELSE scrape_results
    /\ idx' = idx + 1
    /\ UNCHANGED <<spc, run_no, csv_main, ready_titles, start_idx, max_movies,
                   movies_to_scrape, runs>>
    /\ UNCHANGED <<parseVars, aggVars, mergeVars, fetchVars, collectVars,
                   dailyVars, quotaVars, politeVars, keyVars, pureVars,
                   ratioVars, tmdbVars>>

\* The summary of scrape_movies_batch, which divides by the number of rows,
\* and the rest of __main__: update_main_dataset when there are results.
EndRun ==
    /\ spc = "loop"
    /\ idx = Len(movies_to_scrape)
    /\ runs' = Append(runs,
                      [eligible  |-> TitlesOf(EligibleRows(csv_main)),
                       processed |-> TitlesOf(movies_to_scrape),
                       updated   |-> scrape_results # <<>>])
    /\ IF Len(movies_to_scrape) = 0
       THEN /\ spc' = "ZeroDivisionError"
            /\ UNCHANGED csv_main
       ELSE /\ spc' = "exit"
            /\ csv_main' =
                  IF scrape_results # <<>>
                  THEN MergeCoalesce(csv_main, scrape_results, UpdateMainCols)
                  ELSE csv_main
    /\ UNCHANGED <<run_no, ready_titles, start_idx, max_movies,
                   movies_to_scrape, idx, scrape_results>>
    /\ UNCHANGED <<parseVars, aggVars, mergeVars, fetchVars, collectVars,
                   dailyVars, quotaVars, politeVars, keyVars, pureVars,
                   ratioVars, tmdbVars>>

\* The script is started again with start_idx = the number of movies the
\* first run went through.
Resume ==
    /\ spc = "exit"
    /\ run_no = 1
    /\ run_no' = 2
    /\ start_idx' = Len(runs[1].processed)
    /\ max_movies' \in 1..MaxCsv
    /\ spc' = "main"
    /\ UNCHANGED <<csv_main, ready_titles, movies_to_scrape, idx,
                   scrape_results, runs>>
    /\ UNCHANGED <<parseVars, aggVars, mergeVars, fetchVars, collectVars,
                   dailyVars, quotaVars, politeVars, keyVars, pureVars,
                   ratioVars, tmdbVars>>

\* The second run has ended normally.
ResumeDone ==
    /\ spc = "exit"
    /\ run_no = 2
    /\ spc' = "done"
    /\ UNCHANGED <<run_no, csv_main, ready_titles, start_idx, max_movies,
                   movies_to_scrape, idx, scrape_results, runs>>
    /\ UNCHANGED <<parseVars, aggVars, mergeVars, fetchVars, collectVars,
                   dailyVars, quotaVars, politeVars, keyVars, pureVars,
                   ratioVars, tmdbVars>>

ResumeNext ==
    \/ StartRun
    \/ ScrapeOne
    \/ EndRun
    \/ Resume
    \/ ResumeDone

SpecResumeInit ==
    ResumeInit /\ ParseIdle /\ AggIdle /\ MergeIdle /\ FetchIdle /\ CollectIdle
    /\ DailyIdle /\ QuotaIdle /\ PoliteIdle /\ KeyIdle /\ PureIdle
    /\ RatioIdle /\ TmdbIdle

SpecResume == SpecResumeInit /\ [][ResumeNext]_vars

SeqSet(s) == {s[i] : i \in 1..Len(s)}

\* C30 as claimed: when the first run updated the dataset and the second
\* run, started at start_idx = N, is not cut short by max_movies, the second
\* run goes through every movie that was eligible and that the first run did
\* not go through, and through no movie of the first run.
C30_Claimed_ResumeLosesNoWork ==
    (Len(runs) = 2 /\ runs[1].updated /\ max_movies >= MaxCsv) =>
        /\ SeqSet(runs[1].eligible) \ SeqSet(runs[1].processed)
               \subseteq SeqSet(runs[2].processed)
        /\ SeqSet(runs[1].processed) \cap SeqSet(runs[2].processed) = {}

====
